---- MODULE Spec2Model ----
(***************************************************************************)
(* A model of the ASD screening backend:                                   *)
(*   backend/unified_asd_api.py    ASDUnifiedSystem (questionnaire, image  *)
(*                                 and fused prediction)                   *)
(*   backend/screening_api.py      ASDScreeningEngine (scoring, risk tier) *)
(*   backend/medsiglip_integration.py  ASDExplainableAI (heatmap, regions, *)
(*                                 rationale)                              *)
(*                                                                         *)
(* Representation of Python values                                         *)
(*   dict        a function whose DOMAIN is the set of keys present        *)
(*   None        the record NoneVal; an object that is there is a record   *)
(*               too (Loaded, Present, PyDict, PyList), so that the two    *)
(*               can be compared                                           *)
(*   float in [0,1] (a confidence)  an integer k in 0..ConfSteps standing  *)
(*               for k/ConfSteps; a fused confidence is kept in units of   *)
(*               1/(10*ConfSteps) because the weights are tenths           *)
(*   str         a sequence of one-character strings, so that lower() and  *)
(*               list membership are computed and not assumed              *)
(*   exception   the value the except clause sees: its message             *)
(***************************************************************************)
EXTENDS Integers, Sequences, FiniteSets, TLC

(***************************************************************************)
(* Bounds of the model.                                                    *)
(***************************************************************************)
\* Confidences are the multiples of 1/ConfSteps in [0,1]; with 30 steps
\* 0.5, 0.8, 0.9 and 5/6 are among them.
ConfSteps == 30
\* A partially filled questionnaire answers at most MaxAnswered items.
MaxAnswered == 1
\* The side of the classifier's input and of the heatmap (224 in the code),
\* scaled down; every region window holds at least one cell from side 5 on.
HeatmapSide == 5
\* A gradient or a map differs from a uniform one in at most MaxHot cells.
MaxHot == 1
\* Longest region list handed to generate_simple_explanation on its own.
MaxRegions == 3
\* Number of calls of score_responses followed.
MaxScorings == 3

VARIABLES
    ml_model,              \* ASDUnifiedSystem.ml_model: Loaded or NoneVal
    cnn_available,         \* ASDUnifiedSystem.cnn_available
    xai,                   \* ASDUnifiedSystem.xai: Present or NoneVal
    xai_model,             \* ASDExplainableAI.model: Loaded or NoneVal
    feature_columns,       \* the classifier's expected columns, or NoneVal
    questionnaire_data,    \* the request body of the questionnaire request
    image_file,            \* the uploaded file of the image request
    questionnaire_env,     \* what the environment did during the questionnaire request
    image_env,             \* what the environment did during the image request
    img_array,             \* the preprocessed array given to generate_gradcam
    grads,                 \* what the gradient pass of the classifier yields
    heatmap,               \* last result of generate_gradcam
    attention_regions,     \* last result of analyze_attention_regions
    questionnaire_result,  \* last result of predict_from_questionnaire / predict
    image_result,          \* last result of predict_from_image
    verdict,               \* last result of combined_prediction
    explanation,           \* last result of generate_explanation
    rationale,             \* last result of generate_simple_explanation
    score_log,             \* the calls of score_responses made so far
    combined_request,      \* the request of /api/predict/combined
    response               \* the response of /api/predict/combined

vars == <<ml_model, cnn_available, xai, xai_model, feature_columns,
          questionnaire_data, image_file, questionnaire_env, image_env,
          img_array, grads, heatmap,
          attention_regions, questionnaire_result, image_result, verdict,
          explanation, rationale, score_log, combined_request, response>>

\* The state of the explainer's inputs and outputs.
xai_vars == <<img_array, grads, heatmap, attention_regions>>

\* The inputs and outputs of the calls made outside the three system steps.
call_vars == <<explanation, rationale, score_log, combined_request, response>>

(***************************************************************************)
(* Python values.                                                          *)
(***************************************************************************)
NoneVal == [none |-> TRUE]

\* A loaded classifier, a constructed explainer.
Loaded  == [obj |-> "model"]
Present == [obj |-> "ASDExplainableAI"]

\* No call outside the three system steps has been made.
NoCalls ==
    /\ explanation = NoneVal
    /\ rationale = NoneVal
    /\ score_log = << >>
    /\ combined_request = NoneVal
    /\ response = NoneVal

\* A dict and a list received in a request or unpickled: dict d, list l.
PyDict(d) == [t |-> "dict", d |-> d]
PyList(l) == [t |-> "list", l |-> l]

\* An exception raised out of an operation, with str(e).
Raised(msg) == [raised |-> msg]
IsRaised(x) == "raised" \in DOMAIN x

\* dict.get(key, default)
Get(d, key, default) == IF key \in DOMAIN d THEN d[key] ELSE default

Conf == 0..ConfSteps

(***************************************************************************)
(* Python strings and str().  A request value is tagged with its type:     *)
(* [t |-> "str", s |-> chars], [t |-> "int", n |-> k], [t |-> "bool",      *)
(* b |-> x].                                                               *)
(***************************************************************************)
PyStr(chars) == [t |-> "str", s |-> chars]
PyInt(k)     == [t |-> "int", n |-> k]
PyBool(x)    == [t |-> "bool", b |-> x]

Digits == <<"0", "1", "2", "3", "4", "5", "6", "7", "8", "9">>

RECURSIVE IntStr(_)
IntStr(k) ==
    IF k < 10 THEN <<Digits[k + 1]>>
    ELSE IntStr(k \div 10) \o <<Digits[(k % 10) + 1]>>

\* str(x)
Str(x) ==
    CASE x.t = "str"  -> x.s
      [] x.t = "int"  -> IntStr(x.n)
      [] x.t = "bool" -> IF x.b THEN <<"T", "r", "u", "e">>
                                ELSE <<"F", "a", "l", "s", "e">>

UpperCase == <<"A", "B", "C", "D", "E", "F", "G", "H", "I", "J", "K", "L", "M",
               "N", "O", "P", "Q", "R", "S", "T", "U", "V", "W", "X", "Y", "Z">>
LowerCase == <<"a", "b", "c", "d", "e", "f", "g", "h", "i", "j", "k", "l", "m",
               "n", "o", "p", "q", "r", "s", "t", "u", "v", "w", "x", "y", "z">>

LowerChar(c) ==
    IF \E k \in DOMAIN UpperCase : UpperCase[k] = c
    THEN LowerCase[CHOOSE k \in DOMAIN UpperCase : UpperCase[k] = c]
    ELSE c

\* str.lower()
Lower(chars) == [k \in DOMAIN chars |-> LowerChar(chars[k])]

\* x in list
InList(x, list) == \E k \in DOMAIN list : list[k] = x

(***************************************************************************)
(* ASDUnifiedSystem.combined_prediction                                    *)
(***************************************************************************)
\* The weights 0.4 and 0.6, in tenths.
ml_weight == 4
cnn_weight == 6

\* A slip: falling back to the remaining modality when the other scores 0.
CombinedConfidence_fallback(q_conf, i_conf) ==
    IF q_conf = 0 THEN 10 * i_conf
    ELSE IF i_conf = 0 THEN 10 * q_conf
    ELSE q_conf * 4 + i_conf * 6

\* combined_confidence = q_conf * ml_weight + i_conf * cnn_weight,
\* in units of 1/(10*ConfSteps).
CombinedConfidence(q_conf, i_conf) == q_conf * ml_weight + i_conf * cnn_weight

\* combined > num/den, for a combined confidence in units of 1/(10*ConfSteps).
ExceedsFraction(combined, num, den) == combined * den > num * 10 * ConfSteps

\* A slip: a combined confidence of exactly 0.5 taken as elevated.
FinalPrediction_inclusive(combined) ==
    IF 2 * combined >= 10 * ConfSteps THEN 1 ELSE 0

\* int(combined_confidence > 0.5)
FinalPrediction(combined) == IF ExceedsFraction(combined, 1, 2) THEN 1 ELSE 0

\* A slip: the tiers compared with >= instead of >.
RiskLevel_inclusive(combined) ==
    IF 4 * combined >= 3 * 10 * ConfSteps THEN "HIGH"
    ELSE IF 2 * combined >= 10 * ConfSteps THEN "MODERATE"
    ELSE "LOW"

\* the if / elif / else chain over 0.75 and 0.5
RiskLevel(combined) ==
    IF ExceedsFraction(combined, 3, 4) THEN "HIGH"
    ELSE IF ExceedsFraction(combined, 1, 2) THEN "MODERATE"
    ELSE "LOW"

\* A slip: the verdict raised to elevated whenever the questionnaire's own
\* prediction is elevated.
combined_prediction_trustsSources(q_res, i_res) ==
    LET q_conf   == Get(q_res, "confidence", 0)
        i_conf   == Get(i_res, "confidence", 0)
        combined == CombinedConfidence(q_conf, i_conf)
        final    == IF Get(q_res, "prediction", 0) = 1 THEN 1
                    ELSE FinalPrediction(combined)
    IN  [ prediction            |-> final,
          prediction_label      |-> IF final = 1 THEN "ELEVATED_RISK" ELSE "LOW_RISK",
          confidence            |-> combined,
          risk_level            |-> RiskLevel(combined),
          questionnaire_details |-> q_res,
          image_details         |-> i_res ]

combined_prediction(q_res, i_res) ==
    LET q_conf   == Get(q_res, "confidence", 0)
        i_conf   == Get(i_res, "confidence", 0)
        combined == CombinedConfidence(q_conf, i_conf)
        final    == FinalPrediction(combined)
    IN  [ prediction            |-> final,
          prediction_label      |-> IF final = 1 THEN "ELEVATED_RISK" ELSE "LOW_RISK",
          confidence            |-> combined,
          risk_level            |-> RiskLevel(combined),
          questionnaire_details |-> q_res,
          image_details         |-> i_res ]

\* A call of combined_prediction on the two results at hand.
CombinedPrediction ==
    /\ UNCHANGED call_vars
    /\ questionnaire_result # NoneVal
    /\ image_result # NoneVal
    /\ verdict = NoneVal
    /\ verdict' = combined_prediction(questionnaire_result, image_result)
    /\ UNCHANGED <<ml_model, cnn_available, xai, xai_model, feature_columns,
                   questionnaire_data, image_file, questionnaire_env, image_env,
                   questionnaire_result,
                   image_result>>
    /\ UNCHANGED xai_vars

(***************************************************************************)
(* ASDScreeningEngine (screening_api.py)                                   *)
(***************************************************************************)
get_questions ==
    << [id |-> "A1",  type |-> "reverse", text |-> "Looks when name is called"],
       [id |-> "A2",  type |-> "reverse", text |-> "Makes eye contact easily"],
       [id |-> "A3",  type |-> "reverse", text |-> "Points to request objects"],
       [id |-> "A4",  type |-> "reverse", text |-> "Points to share interest"],
       [id |-> "A5",  type |-> "reverse", text |-> "Engages in pretend play"],
       [id |-> "A6",  type |-> "reverse", text |-> "Follows gaze"],
       [id |-> "A7",  type |-> "reverse", text |-> "Seeks comfort when upset"],
       [id |-> "A8",  type |-> "reverse", text |-> "Typical first words"],
       [id |-> "A9",  type |-> "reverse", text |-> "Uses gestures"],
       [id |-> "A10", type |-> "direct",  text |-> "Stares at nothing"] >>

QuestionIds == { get_questions[k].id : k \in DOMAIN get_questions }

Question(id) == get_questions[CHOOSE k \in DOMAIN get_questions : get_questions[k].id = id]

\* ["yes", "y", "1", "true"]
AffirmativeTokens ==
    << <<"y", "e", "s">>, <<"y">>, <<"1">>, <<"t", "r", "u", "e">> >>

\* A slip: the answer compared without lower().
IsYes_caseSensitive(value) == InList(Str(value), AffirmativeTokens)

\* answer = str(value).lower(); yes = answer in ["yes", "y", "1", "true"]
IsYes(value) == InList(Lower(Str(value)), AffirmativeTokens)

\* A slip: an item that is not answered scored 0 whatever its polarity.
ScoreItem_unansweredZero(q, responses) ==
    IF q.id \notin DOMAIN responses THEN 0
    ELSE LET yes == IsYes(responses[q.id])
         IN  IF q.type = "reverse"
             THEN (IF yes THEN 0 ELSE 1)
             ELSE (IF yes THEN 1 ELSE 0)

\* A slip: an item that is not answered read as answered "yes".
ScoreItem_unansweredAffirmative(q, responses) ==
    LET yes == IsYes(Get(responses, q.id, PyStr(<<"y", "e", "s">>)))
    IN  IF q.type = "reverse"
        THEN (IF yes THEN 0 ELSE 1)
        ELSE (IF yes THEN 1 ELSE 0)

\* One iteration of the loop of score_responses, for the question q.
ScoreItem(q, responses) ==
    LET yes == IsYes(Get(responses, q.id, PyStr(<<>>)))
    IN  IF q.type = "reverse"
        THEN (IF yes THEN 0 ELSE 1)
        ELSE (IF yes THEN 1 ELSE 0)

\* score_responses(responses), responses a dict.
score_responses(responses) ==
    [id \in QuestionIds |-> ScoreItem(Question(id), responses)]

\* ["m", "male"]
MaleTokens == << <<"m">>, <<"m", "a", "l", "e">> >>

\* The dict `data` of prepare_input: the four demographic fields, then
\* **scored (a scored item of the same name would replace a field).
PrepareData(child_info, scored) ==
    LET demo ==
          [ Age      |-> Get(child_info, "age", PyInt(36)).n,
            Sex      |-> IF InList(Lower(Str(Get(child_info, "sex", PyStr(<<>>)))),
                                   MaleTokens) THEN 0 ELSE 1,
            Jaundice |-> IF IsYes(Get(child_info, "jaundice", PyStr(<<>>)))
                         THEN 1 ELSE 0,
            Family_mem_with_ASD |->
                         IF IsYes(Get(child_info, "family_asd", PyStr(<<>>)))
                         THEN 1 ELSE 0 ]
    IN  [ k \in DOMAIN demo \cup DOMAIN scored |->
            IF k \in DOMAIN scored THEN scored[k] ELSE demo[k] ]

\* A slip: the frame built from the whole dict `data`, not from the
\* classifier's columns.
prepare_input_allData(child_info, scored, columns) ==
    LET data == PrepareData(child_info, scored)
        names == <<"Age", "Sex", "Jaundice", "Family_mem_with_ASD", "A1", "A2",
                   "A3", "A4", "A5", "A6", "A7", "A8", "A9", "A10">>
    IN  [ columns |-> names,
          row     |-> [k \in DOMAIN names |-> data[names[k]]] ]

\* prepare_input(child_info, scored): the one-row frame, as the list of
\* its column names and the list of the row's values.
prepare_input(child_info, scored, columns) ==
    LET data == PrepareData(child_info, scored)
    IN  [ columns |-> columns,
          row     |-> [k \in DOMAIN columns |-> Get(data, columns[k], 0)] ]

\* sum(scored.values())
RECURSIVE SumOver(_, _)
SumOver(f, keys) ==
    IF keys = {} THEN 0
    ELSE LET k == CHOOSE x \in keys : TRUE
         IN  f[k] + SumOver(f, keys \ {k})

TotalScore(scored) == SumOver(scored, DOMAIN scored)

\* A slip: HIGH only above 7.
QuestionnaireRisk_above7(pred, total_score) ==
    IF pred = 1
    THEN (IF total_score > 7 THEN "HIGH" ELSE "MODERATE")
    ELSE "LOW"

\* The risk tier of the questionnaire modality.
QuestionnaireRisk(pred, total_score) ==
    IF pred = 1
    THEN (IF total_score >= 7 THEN "HIGH" ELSE "MODERATE")
    ELSE "LOW"

\* ASDScreeningEngine.predict(child_info, responses) on an engine whose
\* feature_columns is `columns`.  clf is what the tabular classifier does
\* on the frame: [pred, proba], or Raised(message).  The value is the result
\* dict, or Raised(message) when a step raises.
predict(child_info, responses, columns, clf) ==
    IF responses = NoneVal
    THEN Raised("'NoneType' object has no attribute 'get'")
    ELSE IF child_info = NoneVal
    THEN Raised("'NoneType' object has no attribute 'get'")
    ELSE IF columns = NoneVal
    THEN Raised("'NoneType' object is not iterable")
    ELSE IF IsRaised(clf)
    THEN clf
    ELSE
        LET scored      == score_responses(responses.d)
            X           == prepare_input(child_info.d, scored, columns.l)
            total_score == TotalScore(scored)
        IN  [ source           |-> "questionnaire",
              prediction       |-> clf.pred,
              prediction_label |-> IF clf.pred = 1 THEN "ELEVATED_RISK"
                                                   ELSE "LOW_RISK",
              confidence       |-> clf.proba,
              total_score      |-> total_score,
              max_score        |-> 10,
              risk_level       |-> QuestionnaireRisk(clf.pred, total_score),
              scored_responses |-> scored ]

(***************************************************************************)
(* ASDExplainableAI (medsiglip_integration.py): arrays.                    *)
(* A 2-D array of reals is [h, w, den, num]: the value at cell <<r, c>>    *)
(* (0-based) is num[<<r, c>>] / den.                                       *)
(***************************************************************************)
Cells(h, w) == (0..(h - 1)) \X (0..(w - 1))

Array(h, w, den, num) == [h |-> h, w |-> w, den |-> den, num |-> num]

\* A slip: the fallback map filled with zeros.
NeutralMap_zeros ==
    Array(HeatmapSide, HeatmapSide, 2, [c \in Cells(HeatmapSide, HeatmapSide) |-> 0])

\* np.ones((224, 224)) * 0.5
NeutralMap ==
    Array(HeatmapSide, HeatmapSide, 2, [c \in Cells(HeatmapSide, HeatmapSide) |-> 1])

Abs(x) == IF x < 0 THEN -x ELSE x

\* np.mean(np.abs(grads_np), axis=-1), times 3: a gradient cell is the
\* triple of its three channels.
ChannelMagnitude(g) == [c \in DOMAIN g |-> Abs(g[c][1]) + Abs(g[c][2]) + Abs(g[c][3])]

\* Border handling of cv2.GaussianBlur (BORDER_REFLECT_101).
Reflect(i, n) ==
    IF i < 0 THEN -i
    ELSE IF i > n - 1 THEN 2 * (n - 1) - i
    ELSE i

\* cv2.GaussianBlur(heatmap, (5, 5), 0): the separable kernel
\* (1, 4, 6, 4, 1)/16, applied along the rows and then along the columns;
\* the value is the blurred map times 256.
GaussianBlur(m, h, w) ==
    LET horiz == [ c \in Cells(h, w) |->
                     m[<<c[1], Reflect(c[2] - 2, w)>>]
                     + 4 * m[<<c[1], Reflect(c[2] - 1, w)>>]
                     + 6 * m[c]
                     + 4 * m[<<c[1], Reflect(c[2] + 1, w)>>]
                     + m[<<c[1], Reflect(c[2] + 2, w)>>] ]
    IN  [ c \in Cells(h, w) |->
            horiz[<<Reflect(c[1] - 2, h), c[2]>>]
            + 4 * horiz[<<Reflect(c[1] - 1, h), c[2]>>]
            + 6 * horiz[c]
            + 4 * horiz[<<Reflect(c[1] + 1, h), c[2]>>]
            + horiz[<<Reflect(c[1] + 2, h), c[2]>>] ]

\* np.min, np.max of the values in the set vs
MinOf(vs) == CHOOSE v \in vs : \A u \in vs : v <= u
MaxOf(vs) == CHOOSE v \in vs : \A u \in vs : v >= u

\* A slip: the normalization applied without the test heatmap_max > heatmap_min.
generate_gradcam_unguarded(model, outcome) ==
    IF model = NoneVal THEN NeutralMap
    ELSE IF IsRaised(outcome) THEN NeutralMap
    ELSE IF outcome = NoneVal THEN NeutralMap
    ELSE LET blurred == GaussianBlur(ChannelMagnitude(outcome.g), outcome.h, outcome.w)
             values  == { blurred[c] : c \in Cells(outcome.h, outcome.w) }
         IN  Array(outcome.h, outcome.w, MaxOf(values) - MinOf(values),
                   [c \in Cells(outcome.h, outcome.w) |-> blurred[c] - MinOf(values)])

\* generate_gradcam(img_array) on an explainer whose model is `model`.
\* outcome is what the gradient pass (lines 59-68) yields on img_array:
\* Raised(message), NoneVal (no gradient), or the gradient [h, w, g] with g
\* the channel triples; any later step that raises is a Raised outcome too.
generate_gradcam(model, outcome) ==
    IF model = NoneVal THEN NeutralMap
    ELSE IF IsRaised(outcome) THEN NeutralMap
    ELSE IF outcome = NoneVal THEN NeutralMap
    ELSE LET blurred == GaussianBlur(ChannelMagnitude(outcome.g), outcome.h, outcome.w)
             values  == { blurred[c] : c \in Cells(outcome.h, outcome.w) }
             heatmap_min == MinOf(values)
             heatmap_max == MaxOf(values)
         IN  IF heatmap_max > heatmap_min
             THEN \* (heatmap - heatmap_min) / (heatmap_max - heatmap_min)
                  Array(outcome.h, outcome.w, heatmap_max - heatmap_min,
                        [c \in Cells(outcome.h, outcome.w) |->
                            blurred[c] - heatmap_min])
             ELSE NeutralMap

(***************************************************************************)
(* ASDExplainableAI.analyze_attention_regions                              *)
(***************************************************************************)
\* The windows of the dict `regions`, in declaration order; the fractions
\* are in hundredths.  "overall" is the mean of the whole map.
RegionCatalog ==
    << [name |-> "upper_face",  top |-> 20, bottom |-> 40, left |-> 20, right |-> 80],
       [name |-> "eyes_region", top |-> 30, bottom |-> 45, left |-> 25, right |-> 75],
       [name |-> "mid_face",    top |-> 40, bottom |-> 60, left |-> 30, right |-> 70],
       [name |-> "lower_face",  top |-> 60, bottom |-> 80, left |-> 25, right |-> 75],
       [name |-> "overall",     top |-> 0,  bottom |-> 100, left |-> 0, right |-> 100] >>

\* int(fraction * size)
IntFrac(hundredths, size) == (hundredths * size) \div 100

\* A slip: the slices taken with their upper index included.
WindowCells_inclusive(win, h, w) ==
    { c \in Cells(h, w) :
        /\ c[1] >= IntFrac(win.top, h)  /\ c[1] <= IntFrac(win.bottom, h)
        /\ c[2] >= IntFrac(win.left, w) /\ c[2] <= IntFrac(win.right, w) }

\* The cells of heatmap[int(top*h):int(bottom*h), int(left*w):int(right*w)].
WindowCells(win, h, w) ==
    { c \in Cells(h, w) :
        /\ c[1] >= IntFrac(win.top, h)  /\ c[1] < IntFrac(win.bottom, h)
        /\ c[2] >= IntFrac(win.left, w) /\ c[2] < IntFrac(win.right, w) }

RECURSIVE SumCells(_, _)
SumCells(num, cells) ==
    IF cells = {} THEN 0
    ELSE LET c == CHOOSE x \in cells : TRUE
         IN  num[c] + SumCells(num, cells \ {c})

\* .mean() of a window: the real num/den.
RegionMean(map, cells) ==
    [num |-> SumCells(map.num, cells), den |-> Cardinality(cells) * map.den]

\* a < b for two means
ScoreLess(a, b) == a.num * b.den < b.num * a.den

\* regions.items(): the (name, score) pairs in declaration order.
RegionItems(map) ==
    [ k \in DOMAIN RegionCatalog |->
        << RegionCatalog[k].name,
           RegionMean(map, WindowCells(RegionCatalog[k], map.h, map.w)) >> ]

\* A slip: an unstable order, an item placed before the items of equal score.
RECURSIVE InsertSorted_beforeEqual(_, _)
InsertSorted_beforeEqual(sorted, item) ==
    IF sorted = << >> THEN <<item>>
    ELSE IF ~ScoreLess(item[2], Head(sorted)[2])
         THEN <<item>> \o sorted
         ELSE <<Head(sorted)>> \o InsertSorted_beforeEqual(Tail(sorted), item)

\* sorted(items, key=lambda x: x[1], reverse=True): a stable sort, so an
\* item goes after every item already placed whose score is not smaller.
RECURSIVE InsertSorted(_, _)
InsertSorted(sorted, item) ==
    IF sorted = << >> THEN <<item>>
    ELSE IF ScoreLess(Head(sorted)[2], item[2])
         THEN <<item>> \o sorted
         ELSE <<Head(sorted)>> \o InsertSorted(Tail(sorted), item)

RECURSIVE SortedDescending(_)
SortedDescending(items) ==
    IF items = << >> THEN << >>
    ELSE InsertSorted(SortedDescending(SubSeq(items, 1, Len(items) - 1)),
                      items[Len(items)])

analyze_attention_regions(map) == SortedDescending(RegionItems(map))

(***************************************************************************)
(* ASDExplainableAI: overlay, rationale, generate_explanation.             *)
(* A text is a sequence of segments: Txt(fixed text), a region name, a     *)
(* formatted percentage.                                                   *)
(***************************************************************************)
Txt(t)        == [text |-> t]
RegionName(n) == [region |-> n]
PyText(segs)  == [segments |-> segs]

\* A slip: the percentage cut off after two decimals instead of rounded.
Percent_truncated(score) ==
    IF score.den = 0 THEN [nan |-> TRUE]
    ELSE [percent |-> (score.num * 10000) \div score.den]

\* f"{score:.2%}": the score in hundredths of a percent, rounded to the
\* nearest (a tie to the even one); "nan%" for the mean of an empty window.
Percent(score) ==
    IF score.den = 0 THEN [nan |-> TRUE]
    ELSE LET scaled == score.num * 10000
             q      == scaled \div score.den
             r2     == 2 * (scaled % score.den)
         IN  [percent |-> IF r2 > score.den \/ (r2 = score.den /\ q % 2 = 1)
                          THEN q + 1 ELSE q]

\* create_heatmap_overlay(original_img, heatmap): the base64 text of the PNG,
\* or "" when a step of the rendering raises.
create_heatmap_overlay(rendering_ok) ==
    IF rendering_ok THEN "iVBORw0KGgo" ELSE ""

\* generate_lime_explanation(img): "" without LIME or without a classifier,
\* and "" when LIME fails.
generate_lime_explanation(model, lime_ok) ==
    IF model = NoneVal \/ ~lime_ok THEN "" ELSE "iVBORw0KGgo"

\* generate_simple_explanation(attention_regions)
generate_simple_explanation(regions) ==
    IF Len(regions) < 2 THEN Raised("list index out of range")
    ELSE LET primary   == regions[1]
             secondary == regions[2]
         IN  PyText(<<
                Txt("**Model Attention Analysis:**"),
                Txt("The neural network focused primarily on the"),
                RegionName(primary[1]), Txt("attention:"), Percent(primary[2]),
                Txt("followed by the"),
                RegionName(secondary[1]), Txt("attention:"), Percent(secondary[2]),
                Txt("**Important Note:**"),
                Txt("This is a screening tool, not a diagnostic instrument."),
                Txt("The model analyzes facial patterns that have been studied in autism research literature."),
                Txt("Facial features alone are insufficient for diagnosis"),
                Txt("Many factors influence facial expressions and features"),
                Txt("Professional clinical evaluation is always required"),
                Txt("This tool should only be used as part of comprehensive screening"),
                Txt("**Recommendation:**"),
                Txt("If screening indicates elevated risk, please consult with a qualified healthcare professional for proper evaluation.") >>)

\* The payload of the except clause of generate_explanation.
ExplanationFailure(msg) ==
    [ heatmap_base64    |-> "",
      lime_base64       |-> "",
      attention_regions |-> << >>,
      llm_explanation   |-> PyText(<< Txt("Error generating explanation: "), Txt(msg) >>),
      facial_regions    |-> PyDict(<< >>) ]

\* A slip: generate_explanation without its try/except.
generate_explanation_uncaught(model, env) ==
    IF ~env.preprocess_ok THEN Raised("cannot resize image")
    ELSE LET regions == analyze_attention_regions(generate_gradcam(model, env.outcome))
             text    == generate_simple_explanation(regions)
         IN  IF IsRaised(text) THEN text
             ELSE [ heatmap_base64    |-> create_heatmap_overlay(env.rendering_ok),
                    lime_base64       |-> generate_lime_explanation(model, env.lime_ok),
                    attention_regions |-> [k \in DOMAIN regions |-> regions[k][1]],
                    llm_explanation   |-> text,
                    facial_regions    |->
                        PyList([k \in DOMAIN regions |->
                                  [ region             |-> regions[k][1],
                                    attention_score    |-> regions[k][2],
                                    clinical_relevance |-> "" ]]) ]

\* A slip: create_heatmap_overlay without its try/except, so that a failed
\* rendering reaches the except clause of generate_explanation.
generate_explanation_overlayAborts(model, env) ==
    IF ~env.preprocess_ok THEN ExplanationFailure("cannot resize image")
    ELSE IF ~env.rendering_ok THEN ExplanationFailure("OpenCV error")
    ELSE generate_explanation_uncaught(model, env)

\* The return statements of generate_explanation: the payload of lines
\* 292-303, or that of the except clause when the rationale raised.
ExplanationPayload(overlay, lime, regions, text) ==
    IF IsRaised(text) THEN ExplanationFailure(text.raised)
    ELSE [ heatmap_base64    |-> overlay,
           lime_base64       |-> lime,
           attention_regions |-> [k \in DOMAIN regions |-> regions[k][1]],
           llm_explanation   |-> text,
           facial_regions    |->
               PyList([k \in DOMAIN regions |->
                         [ region             |-> regions[k][1],
                           attention_score    |-> regions[k][2],
                           clinical_relevance |-> "" ]]) ]

\* Lines 289-303 of generate_explanation, on the overlay, the LIME image
\* and the ranked regions computed before.
ExplanationOf(overlay, lime, regions) ==
    ExplanationPayload(overlay, lime, regions,
                       generate_simple_explanation(regions))

\* generate_explanation(img) on an explainer whose model is `model`.  env is
\* what the environment does during the call: preprocess_ok (resizing and
\* converting the image works), outcome (what the gradient pass yields),
\* rendering_ok (the overlay can be rendered), lime_ok.
generate_explanation(model, env) ==
    IF ~env.preprocess_ok THEN ExplanationFailure("cannot resize image")
    ELSE ExplanationOf(create_heatmap_overlay(env.rendering_ok),
                       generate_lime_explanation(model, env.lime_ok),
                       analyze_attention_regions(
                           generate_gradcam(model, env.outcome)))

(***************************************************************************)
(* The explainer's operations as steps.                                    *)
(***************************************************************************)
\* set_model(model)
SetModel ==
    /\ UNCHANGED call_vars
    /\ xai # NoneVal
    /\ xai_model = NoneVal
    /\ heatmap = NoneVal
    /\ xai_model' = Loaded
    /\ UNCHANGED <<ml_model, cnn_available, xai, feature_columns,
                   questionnaire_data, image_file, questionnaire_env, image_env,
                   xai_vars,
                   questionnaire_result, image_result, verdict>>

\* generate_gradcam(img_array)
GenerateGradcam ==
    /\ UNCHANGED call_vars
    /\ xai # NoneVal
    /\ img_array # NoneVal
    /\ heatmap = NoneVal
    /\ heatmap' = generate_gradcam(xai_model, grads)
    /\ UNCHANGED <<ml_model, cnn_available, xai, xai_model, feature_columns,
                   questionnaire_data, image_file, questionnaire_env, image_env,
                   img_array, grads,
                   attention_regions,
                   questionnaire_result, image_result, verdict>>

\* analyze_attention_regions(heatmap)
AnalyzeAttentionRegions ==
    /\ UNCHANGED call_vars
    /\ xai # NoneVal
    /\ heatmap # NoneVal
    /\ attention_regions = NoneVal
    /\ attention_regions' = analyze_attention_regions(heatmap)
    /\ UNCHANGED <<ml_model, cnn_available, xai, xai_model, feature_columns,
                   questionnaire_data, image_file, questionnaire_env, image_env,
                   img_array, grads, heatmap,
                   questionnaire_result, image_result, verdict>>

(***************************************************************************)
(* SpecXai: the explainer on its own.  Init draws either the input of      *)
(* generate_gradcam and what the gradient pass will yield, or a map in     *)
(* [0,1] of the heatmap's shape handed to analyze_attention_regions.       *)
(***************************************************************************)
\* The subsets of S with at most k elements.
RECURSIVE SubsetsUpTo(_, _)
SubsetsUpTo(S, k) ==
    IF k = 0 THEN {{}}
    ELSE LET smaller == SubsetsUpTo(S, k - 1)
         IN  smaller \cup { p \cup {x} : p \in smaller, x \in S }

\* The functions on cells that take the value bg except on at most MaxHot
\* cells, where they take values of hot.
SparseFunctions(cells, backgrounds, hot) ==
    UNION { { [c \in cells |-> IF c \in spots THEN a[c] ELSE bg] :
                a \in [spots -> hot], bg \in backgrounds } :
            spots \in SubsetsUpTo(cells, MaxHot) }

\* The shapes of the arrays handed to generate_gradcam: the classifier's
\* input shape and another one.
InputShapes ==
    { [h |-> HeatmapSide, w |-> HeatmapSide],
      [h |-> HeatmapSide - 1, w |-> HeatmapSide] }

\* What the gradient pass may yield on an array of the given shape.  The
\* classifier has a fixed input shape and rejects any other; on its own shape
\* the pass raises, yields no gradient, or yields a gradient of that shape.
GradientOutcomes(shape) ==
    IF shape.h # HeatmapSide \/ shape.w # HeatmapSide
    THEN { Raised("Input 0 of layer is incompatible with the layer") }
    ELSE { [h |-> shape.h, w |-> shape.w, g |-> g] :
             g \in SparseFunctions(Cells(shape.h, shape.w),
                                   { <<0, 0, 0>>, <<1, -2, 0>> },
                                   { <<-3, 0, 3>>, <<0, 0, 1>> }) }
         \cup { NoneVal, Raised("gradient computation failed") }

\* Maps of the heatmap's shape with values 0, 1/2 and 1.
DirectMaps ==
    { Array(HeatmapSide, HeatmapSide, 2, num) :
        num \in SparseFunctions(Cells(HeatmapSide, HeatmapSide),
                                {0, 1, 2}, {0, 1, 2}) }

InitXai ==
    /\ NoCalls
    /\ ml_model = NoneVal
    /\ cnn_available = FALSE
    /\ xai = Present
    /\ xai_model = NoneVal
    /\ feature_columns = NoneVal
    /\ questionnaire_data = NoneVal
    /\ image_file = NoneVal
    /\ questionnaire_env = NoneVal
    /\ image_env = NoneVal
    /\ \/ /\ img_array \in InputShapes
          /\ grads \in GradientOutcomes(img_array)
          /\ heatmap = NoneVal
       \/ /\ img_array = NoneVal
          /\ grads = NoneVal
          /\ heatmap \in DirectMaps
    /\ attention_regions = NoneVal
    /\ questionnaire_result = NoneVal
    /\ image_result = NoneVal
    /\ verdict = NoneVal

NextXai == SetModel \/ GenerateGradcam \/ AnalyzeAttentionRegions

SpecXai == InitXai /\ [][NextXai]_vars

(***************************************************************************)
(* SpecRegions: analyze_attention_regions on a map of any shape.  The      *)
(* method takes h and w from heatmap.shape and checks neither.             *)
(***************************************************************************)
\* Maps of every shape up to HeatmapSide x HeatmapSide with values 0, 1/2
\* and 1: one value everywhere, but for one cell at most.
SizedMaps ==
    UNION { { Array(h, w, 2, [c \in Cells(h, w) |-> IF c = spot THEN v ELSE bg]) :
                spot \in Cells(h, w) \cup {<<h, w>>},
                v \in {0, 1, 2}, bg \in {0, 1, 2} } :
            h \in 1..HeatmapSide, w \in 1..HeatmapSide }

InitRegions ==
    /\ NoCalls
    /\ ml_model = NoneVal
    /\ cnn_available = FALSE
    /\ xai = Present
    /\ xai_model = NoneVal
    /\ feature_columns = NoneVal
    /\ questionnaire_data = NoneVal
    /\ image_file = NoneVal
    /\ questionnaire_env = NoneVal
    /\ image_env = NoneVal
    /\ img_array = NoneVal
    /\ grads = NoneVal
    /\ heatmap \in SizedMaps
    /\ attention_regions = NoneVal
    /\ questionnaire_result = NoneVal
    /\ image_result = NoneVal
    /\ verdict = NoneVal

NextRegions == AnalyzeAttentionRegions

SpecRegions == InitRegions /\ [][NextRegions]_vars

(***************************************************************************)
(* SpecRationale: generate_simple_explanation on any ranked region list.   *)
(***************************************************************************)
\* generate_simple_explanation(attention_regions), on the list held in
\* attention_regions.
GenerateSimpleExplanation ==
    /\ xai # NoneVal
    /\ rationale = NoneVal
    /\ rationale' = generate_simple_explanation(attention_regions)
    /\ UNCHANGED <<ml_model, cnn_available, xai, xai_model, feature_columns,
                   questionnaire_data, image_file, questionnaire_env, image_env,
                   img_array, grads, heatmap, attention_regions,
                   questionnaire_result, image_result, verdict,
                   explanation, score_log, combined_request, response>>

\* Scores of the lists: 0, 1, and fractions whose percentage has more than
\* two decimals, two of them exactly between two hundredths.
ListScores ==
    { [num |-> 0, den |-> 1], [num |-> 1, den |-> 32], [num |-> 3, den |-> 32],
      [num |-> 1, den |-> 3], [num |-> 1, den |-> 2], [num |-> 2, den |-> 3],
      [num |-> 1, den |-> 1] }

\* The names of the region catalog.
DeclaredNames == { RegionCatalog[k].name : k \in DOMAIN RegionCatalog }

\* The (region, score) lists of at most MaxRegions distinct regions, scores
\* descending.
RankedLists ==
    UNION { { l \in [1..n -> DeclaredNames \X ListScores] :
                /\ \A j, k \in 1..n : j # k => l[j][1] # l[k][1]
                /\ \A k \in 1..(n - 1) : ~ScoreLess(l[k][2], l[k + 1][2]) } :
            n \in 0..MaxRegions }

InitRationale ==
    /\ NoCalls
    /\ ml_model = NoneVal
    /\ cnn_available = FALSE
    /\ xai = Present
    /\ xai_model = NoneVal
    /\ feature_columns = NoneVal
    /\ questionnaire_data = NoneVal
    /\ image_file = NoneVal
    /\ questionnaire_env = NoneVal
    /\ image_env = NoneVal
    /\ img_array = NoneVal
    /\ grads = NoneVal
    /\ heatmap = NoneVal
    /\ attention_regions \in RankedLists
    /\ questionnaire_result = NoneVal
    /\ image_result = NoneVal
    /\ verdict = NoneVal

NextRationale == GenerateSimpleExplanation

SpecRationale == InitRationale /\ [][NextRationale]_vars

(***************************************************************************)
(* SpecExplain: generate_explanation on an explainer of its own, with or   *)
(* without a classifier.  The results of the calls it makes are kept in    *)
(* heatmap, attention_regions and explanation.                             *)
(***************************************************************************)
\* What the gradient pass may yield on the resized image: it raises, yields
\* no gradient, or yields a gradient that is the same everywhere but for
\* one cell at most.
ExplainOutcomes ==
    { [ h |-> HeatmapSide, w |-> HeatmapSide,
        g |-> [c \in Cells(HeatmapSide, HeatmapSide) |->
                 IF c = spot THEN v ELSE bg] ] :
        spot \in Cells(HeatmapSide, HeatmapSide) \cup {<<HeatmapSide, HeatmapSide>>},
        v \in { <<-3, 0, 3>>, <<0, 0, 1>> },
        bg \in { <<0, 0, 0>>, <<1, -2, 0>> } }
    \cup { NoneVal, Raised("gradient computation failed") }

\* What the environment may do during generate_explanation(img) on an
\* explainer whose model is `model`.  When the image cannot be resized the
\* gradient pass is not reached and yields nothing.
ExplainEnvs(model) ==
    [ preprocess_ok : {TRUE},
      outcome       : IF model = NoneVal THEN {NoneVal} ELSE ExplainOutcomes,
      rendering_ok  : BOOLEAN,
      lime_ok       : BOOLEAN ]
    \cup [ preprocess_ok : {FALSE}, outcome : {NoneVal},
           rendering_ok : BOOLEAN, lime_ok : BOOLEAN ]

\* generate_explanation(img)
GenerateExplanation ==
    /\ xai # NoneVal
    /\ explanation = NoneVal
    /\ \E env \in ExplainEnvs(xai_model) :
       \E map \in { IF env.preprocess_ok
                    THEN generate_gradcam(xai_model, env.outcome)
                    ELSE heatmap } :
          /\ image_env' = env
          /\ heatmap' = map
          /\ attention_regions' =
                 IF env.preprocess_ok THEN analyze_attention_regions(map)
                 ELSE attention_regions
          /\ explanation' = generate_explanation(xai_model, env)
    /\ UNCHANGED <<ml_model, cnn_available, xai, xai_model, feature_columns,
                   questionnaire_data, image_file, questionnaire_env,
                   img_array, grads,
                   questionnaire_result, image_result, verdict,
                   rationale, score_log, combined_request, response>>

InitExplain ==
    /\ NoCalls
    /\ ml_model = NoneVal
    /\ cnn_available = FALSE
    /\ xai = Present
    /\ xai_model \in {NoneVal, Loaded}
    /\ feature_columns = NoneVal
    /\ questionnaire_data = NoneVal
    /\ image_file = NoneVal
    /\ questionnaire_env = NoneVal
    /\ image_env = NoneVal
    /\ img_array = NoneVal
    /\ grads = NoneVal
    /\ heatmap = NoneVal
    /\ attention_regions = NoneVal
    /\ questionnaire_result = NoneVal
    /\ image_result = NoneVal
    /\ verdict = NoneVal

NextExplain == GenerateExplanation

SpecExplain == InitExplain /\ [][NextExplain]_vars

(***************************************************************************)
(* The route /api/screening/predict of screening_api.py: the engine's      *)
(* predict on the request body, any exception answered with status 500.    *)
(***************************************************************************)
ScreeningResponse(payload, columns, clf) ==
    IF payload = NoneVal
    THEN [error |-> "'NoneType' object is not subscriptable", status |-> 500]
    ELSE IF "child_info" \notin DOMAIN payload.d
    THEN [error |-> "'child_info'", status |-> 500]
    ELSE IF "responses" \notin DOMAIN payload.d
    THEN [error |-> "'responses'", status |-> 500]
    ELSE LET result == predict(payload.d.child_info, payload.d.responses,
                               columns, clf)
         IN  IF IsRaised(result)
             THEN [error |-> result.raised, status |-> 500]
             ELSE result

\* The frame the route hands to the classifier (predict, lines 103-106), or
\* NoneVal when the request fails before the classifier is reached.
ClassifierInput(payload, columns) ==
    IF payload = NoneVal THEN NoneVal
    ELSE IF {"child_info", "responses"} \subseteq DOMAIN payload.d
            /\ payload.d.child_info # NoneVal
            /\ payload.d.responses # NoneVal
            /\ columns # NoneVal
    THEN prepare_input(payload.d.child_info.d,
                       score_responses(payload.d.responses.d), columns.l)
    ELSE NoneVal

\* What the tabular classifier may do on a frame: predict 0 or 1 with a
\* probability drawn from probas, or raise.
ClassifierOutcomes(probas) ==
    { [pred |-> p, proba |-> c] : p \in {0, 1}, c \in probas }
    \cup { Raised("X has a different number of features than expected") }

ScreeningPredict ==
    /\ UNCHANGED call_vars
    /\ questionnaire_result = NoneVal
    /\ \E X \in {ClassifierInput(questionnaire_data, feature_columns)} :
       \E clf \in ClassifierOutcomes({0, ConfSteps}) :
          /\ questionnaire_result' =
                 ScreeningResponse(questionnaire_data, feature_columns, clf)
          /\ questionnaire_env' = [clf |-> clf, X |-> X]
    /\ UNCHANGED <<ml_model, cnn_available, xai, xai_model, feature_columns,
                   questionnaire_data, image_file, image_env,
                   image_result, verdict>>
    /\ UNCHANGED xai_vars

(***************************************************************************)
(* SpecScore: the questionnaire engine on any request body.  Init draws    *)
(* the body and the classifier's columns; the action answers the request.  *)
(***************************************************************************)
\* Answers a form may carry: the affirmative tokens in several cases, other
\* texts, and JSON numbers and booleans.
AnswerValues ==
    { PyStr(<<"y", "e", "s">>), PyStr(<<"Y", "e", "s">>), PyStr(<<"y">>),
      PyStr(<<"1">>), PyStr(<<"t", "r", "u", "e">>),
      PyStr(<<"T", "R", "U", "E">>), PyStr(<<"n", "o">>), PyStr(<<>>),
      PyStr(<<"y", "e", "s", " ">>), PyStr(<<"m", "a", "y", "b", "e">>),
      PyInt(1), PyInt(0), PyInt(11), PyBool(TRUE), PyBool(FALSE) }

\* Keys a form may carry: the ten items and one that is no item.
FormKeys == QuestionIds \cup {"A11"}

\* Forms answering every item with yes or no.
FullForms == [QuestionIds -> {PyStr(<<"y", "e", "s">>), PyStr(<<"n", "o">>)}]

\* Forms answering at most MaxAnswered keys, with any answers.
SparseForms ==
    UNION { [keys -> AnswerValues] : keys \in SubsetsUpTo(FormKeys, MaxAnswered) }

Forms == FullForms \cup SparseForms

ChildInfos ==
    { [age |-> PyInt(24), sex |-> PyStr(<<"M">>), jaundice |-> PyStr(<<"n", "o">>),
       family_asd |-> PyStr(<<"Y", "E", "S">>)],
      [sex |-> PyStr(<<"f", "e", "m", "a", "l", "e">>), jaundice |-> PyBool(TRUE)] }

ColumnLists ==
    { <<"A1", "A2", "A3", "A4", "A5", "A6", "A7", "A8", "A9", "A10",
        "Age", "Sex", "Jaundice", "Family_mem_with_ASD">>,
      <<"Sex", "Ethnicity", "A10", "A1", "Age">> }

ScreeningPayloads ==
    { PyDict([child_info |-> PyDict(ci), responses |-> PyDict(f)]) :
        ci \in ChildInfos, f \in Forms }
    \cup { PyDict([child_info |-> NoneVal, responses |-> PyDict(<< >>)]),
           PyDict([child_info |-> PyDict(<< >>), responses |-> NoneVal]),
           PyDict([responses |-> PyDict(<< >>)]),
           PyDict([child_info |-> PyDict(<< >>)]),
           NoneVal }

InitScore ==
    /\ NoCalls
    /\ ml_model = Loaded
    /\ cnn_available = FALSE
    /\ xai = NoneVal
    /\ xai_model = NoneVal
    /\ feature_columns \in { PyList(cols) : cols \in ColumnLists }
    /\ questionnaire_data \in ScreeningPayloads
    /\ image_file = NoneVal
    /\ questionnaire_env = NoneVal
    /\ image_env = NoneVal
    /\ img_array = NoneVal
    /\ grads = NoneVal
    /\ heatmap = NoneVal
    /\ attention_regions = NoneVal
    /\ questionnaire_result = NoneVal
    /\ image_result = NoneVal
    /\ verdict = NoneVal

NextScore == ScreeningPredict

SpecScore == InitScore /\ [][NextScore]_vars

(***************************************************************************)
(* ASDUnifiedSystem (unified_asd_api.py): the two modality predictions.    *)
(***************************************************************************)
\* The fields predict_from_questionnaire reads from the request body.
RequestFields == <<"age", "sex", "jaundice", "family_asd", "responses">>

\* The first of the fields, in the order they are read, that data lacks;
\* 0 when none is missing.
FirstMissing(data) ==
    IF \A k \in DOMAIN RequestFields : RequestFields[k] \in DOMAIN data THEN 0
    ELSE CHOOSE k \in DOMAIN RequestFields :
            /\ RequestFields[k] \notin DOMAIN data
            /\ \A j \in 1..(k - 1) : RequestFields[j] \in DOMAIN data

\* str(KeyError(key))
KeyErrorText(key) ==
    CASE key = "age"        -> "'age'"
      [] key = "sex"        -> "'sex'"
      [] key = "jaundice"   -> "'jaundice'"
      [] key = "family_asd" -> "'family_asd'"
      [] key = "responses"  -> "'responses'"

\* The dict of the except clause and of the guard of predict_from_questionnaire.
QuestionnaireError(msg) ==
    [ source |-> "questionnaire", prediction |-> 0, confidence |-> 0,
      error |-> msg ]

\* A slip: the body of predict_from_questionnaire without its try/except.
predict_from_questionnaire_uncaught(model, columns, data, env) ==
    IF model = NoneVal THEN QuestionnaireError("ML model not available")
    ELSE IF ~env.engine_ok
    THEN Raised("[Errno 2] No such file or directory: 'asd_model.pkl'")
    ELSE IF data = NoneVal THEN Raised("'NoneType' object is not subscriptable")
    ELSE IF FirstMissing(data.d) # 0
    THEN Raised(KeyErrorText(RequestFields[FirstMissing(data.d)]))
    ELSE predict(PyDict([ age        |-> data.d.age,
                          sex        |-> data.d.sex,
                          jaundice   |-> data.d.jaundice,
                          family_asd |-> data.d.family_asd ]),
                 data.d.responses, columns, env.clf)

\* predict_from_questionnaire(questionnaire_data) on a system whose ml_model
\* is `model` and whose feature_columns is `columns`.  env is what the
\* environment does during the call: engine_ok (importing screening_api and
\* constructing ASDScreeningEngine, which reads asd_model.pkl from the
\* working directory, works) and clf (what the tabular classifier does).
predict_from_questionnaire(model, columns, data, env) ==
    IF model = NoneVal THEN QuestionnaireError("ML model not available")
    ELSE LET result ==
                 IF ~env.engine_ok
                 THEN Raised("[Errno 2] No such file or directory: 'asd_model.pkl'")
                 ELSE IF data = NoneVal
                 THEN Raised("'NoneType' object is not subscriptable")
                 ELSE IF FirstMissing(data.d) # 0
                 THEN Raised(KeyErrorText(RequestFields[FirstMissing(data.d)]))
                 ELSE predict(PyDict([ age        |-> data.d.age,
                                       sex        |-> data.d.sex,
                                       jaundice   |-> data.d.jaundice,
                                       family_asd |-> data.d.family_asd ]),
                              data.d.responses, columns, env.clf)
         IN  IF IsRaised(result) THEN QuestionnaireError(result.raised)
             ELSE result

\* The dict of the guard of predict_from_image.
ImageUnavailable ==
    [ source            |-> "image",
      prediction        |-> 0,
      confidence        |-> 0,
      error             |-> "CNN model not available",
      heatmap_base64    |-> "",
      attention_regions |-> << >>,
      llm_explanation   |-> PyText(<< Txt("CNN model could not be loaded") >>),
      facial_regions    |-> PyDict(<< >>) ]

\* The dict of the except clause of predict_from_image.
ImageError(msg) ==
    [ source            |-> "image",
      prediction        |-> 0,
      confidence        |-> 0,
      error             |-> msg,
      heatmap_base64    |-> "",
      attention_regions |-> << >>,
      llm_explanation   |-> PyText(<< Txt("Error during prediction: "), Txt(msg) >>),
      facial_regions    |-> PyDict(<< >>) ]

\* The xai_results of predict_from_image when the system has no explainer.
ExplainerUnavailable ==
    [ heatmap_base64    |-> "",
      attention_regions |-> << >>,
      llm_explanation   |-> PyText(<< Txt("Explainable AI module not available") >>),
      facial_regions    |-> PyDict(<< >>) ]

\* Whether predict_from_image reaches its call of generate_explanation
\* (lines 192-194): the classifier is available, the upload was decoded, the
\* classifier returned a score and the system has an explainer.
ExplanationCalled(available, explainer, file, env) ==
    /\ available
    /\ file.decodable
    /\ ~IsRaised(env.cnn)
    /\ explainer # NoneVal

\* Whether that call of generate_explanation reaches generate_gradcam and
\* analyze_attention_regions (lines 278-284): the image could be resized.
GradcamCalled(available, explainer, file, env) ==
    /\ ExplanationCalled(available, explainer, file, env)
    /\ env.preprocess_ok

\* A slip: a missing explainer or an empty overlay treated as a failure of
\* the prediction.
predict_from_image_abortsOnExplanation(available, explainer, model, file, env) ==
    IF ~available THEN ImageUnavailable
    ELSE IF ~file.decodable THEN ImageError("cannot identify image file")
    ELSE IF IsRaised(env.cnn) THEN ImageError(env.cnn.raised)
    ELSE IF explainer = NoneVal THEN ImageError("Explainable AI module not available")
    ELSE LET xai_results == generate_explanation(model, env)
         IN  IF xai_results.heatmap_base64 = ""
             THEN ImageError("explanation failed")
             ELSE xai_results @@
                  [ source     |-> "image",
                    prediction |-> IF 2 * env.cnn.score > ConfSteps THEN 1 ELSE 0,
                    confidence |-> env.cnn.score ]

\* predict_from_image(image_file) on a system with the given cnn_available
\* and explainer (whose model is `model`).  image_file says whether PIL can
\* decode the upload; env is what the environment does during the call: cnn
\* (the score of the image classifier in units of 1/ConfSteps, or Raised)
\* and the fields read by
\* generate_explanation.
predict_from_image(available, explainer, model, file, env) ==
    IF ~available THEN ImageUnavailable
    ELSE IF ~file.decodable THEN ImageError("cannot identify image file")
    ELSE IF IsRaised(env.cnn) THEN ImageError(env.cnn.raised)
    ELSE LET cnn_pred    == env.cnn.score
             xai_results == IF explainer # NoneVal
                            THEN generate_explanation(model, env)
                            ELSE ExplainerUnavailable
         IN  xai_results @@
             [ source     |-> "image",
               prediction |-> IF 2 * cnn_pred > ConfSteps THEN 1 ELSE 0,
               confidence |-> cnn_pred ]

(***************************************************************************)
(* Spec: the unified system.  Init draws which of the models loaded at      *)
(* construction; the steps are a questionnaire request, an image request   *)
(* and the fusion of their two results.                                    *)
(***************************************************************************)
\* Forms of the requests: every item "yes", every item "no", nothing
\* answered, and one item answered in capitals.
SystemForms ==
    { [id \in QuestionIds |-> PyStr(<<"y", "e", "s">>)],
      [id \in QuestionIds |-> PyStr(<<"n", "o">>)],
      << >>,
      [id \in {"A10"} |-> PyStr(<<"Y", "E", "S">>)] }

\* Request bodies: complete ones, ones lacking a field, one whose responses
\* is null, and a null body.
SystemRequests ==
    { PyDict([ age |-> PyInt(24), sex |-> PyStr(<<"M">>),
               jaundice |-> PyStr(<<"n", "o">>),
               family_asd |-> PyStr(<<"n", "o">>),
               responses |-> PyDict(f) ]) : f \in SystemForms }
    \cup { PyDict([ sex |-> PyStr(<<"M">>), jaundice |-> PyStr(<<"n", "o">>),
                    family_asd |-> PyStr(<<"n", "o">>),
                    responses |-> PyDict(<< >>) ]),
           PyDict([ age |-> PyInt(24), sex |-> PyStr(<<"M">>),
                    jaundice |-> PyStr(<<"n", "o">>),
                    family_asd |-> PyStr(<<"n", "o">>) ]),
           PyDict([ age |-> PyInt(24), sex |-> PyStr(<<"M">>),
                    jaundice |-> PyStr(<<"n", "o">>),
                    family_asd |-> PyStr(<<"n", "o">>),
                    responses |-> NoneVal ]),
           PyDict(<< >>),
           NoneVal }

QuestionnaireEnvs ==
    [ engine_ok : BOOLEAN, clf : ClassifierOutcomes({0, ConfSteps}) ]

\* Uploads: one PIL decodes and one it does not.
ImageFiles == { [decodable |-> TRUE], [decodable |-> FALSE] }

\* Scores of the image classifier: the ends of [0,1] and the two grid points
\* around 0.5.
CnnOutcomes ==
    { [score |-> c] : c \in { 0, ConfSteps \div 2, ConfSteps \div 2 + 1, ConfSteps } }
    \cup { Raised("Graph execution error") }

\* What the environment may do during an image request on an explainer
\* whose model is `model`.
ImageEnvs(model) ==
    [ cnn           : CnnOutcomes,
      preprocess_ok : BOOLEAN,
      outcome       : IF model = NoneVal THEN {NoneVal}
                      ELSE GradientOutcomes([h |-> HeatmapSide, w |-> HeatmapSide]),
      rendering_ok  : BOOLEAN,
      lime_ok       : BOOLEAN ]

\* POST /api/predict/questionnaire, and the questionnaire half of
\* /api/predict/combined.
PredictFromQuestionnaire ==
    /\ UNCHANGED call_vars
    /\ questionnaire_result = NoneVal
    /\ \E data \in SystemRequests, env \in QuestionnaireEnvs :
          /\ questionnaire_data' = data
          /\ questionnaire_env' = env
          /\ questionnaire_result' =
                 predict_from_questionnaire(ml_model, feature_columns, data, env)
    /\ UNCHANGED <<ml_model, cnn_available, xai, xai_model, feature_columns,
                   image_file, image_env, image_result, verdict>>
    /\ UNCHANGED xai_vars

\* A slip: an image request that attaches the image classifier to the
\* explainer (self.xai.set_model(self.cnn_model)) before answering.
PredictFromImage_attachesModel ==
    /\ image_result = NoneVal
    /\ \E file \in ImageFiles, env \in ImageEnvs(xai_model) :
          /\ image_file' = file
          /\ image_env' = env
          /\ image_result' =
                 predict_from_image(cnn_available, xai, xai_model, file, env)
          /\ explanation' =
                 IF ExplanationCalled(cnn_available, xai, file, env)
                 THEN generate_explanation(xai_model, env)
                 ELSE explanation
          /\ heatmap' =
                 IF GradcamCalled(cnn_available, xai, file, env)
                 THEN generate_gradcam(xai_model, env.outcome)
                 ELSE heatmap
          /\ attention_regions' =
                 IF GradcamCalled(cnn_available, xai, file, env)
                 THEN analyze_attention_regions(
                          generate_gradcam(xai_model, env.outcome))
                 ELSE attention_regions
    /\ xai_model' = IF xai # NoneVal /\ cnn_available THEN Loaded ELSE xai_model
    /\ UNCHANGED <<rationale, score_log, combined_request, response>>
    /\ UNCHANGED <<ml_model, cnn_available, xai, feature_columns,
                   questionnaire_data, questionnaire_env,
                   questionnaire_result, verdict>>
    /\ UNCHANGED <<img_array, grads>>

\* POST /api/predict/image, and the image half of /api/predict/combined.
\* The results of the calls the explainer makes on the way (generate_gradcam,
\* analyze_attention_regions, generate_explanation) are kept in heatmap,
\* attention_regions and explanation.
PredictFromImage ==
    /\ image_result = NoneVal
    /\ \E file \in ImageFiles, env \in ImageEnvs(xai_model) :
          /\ image_file' = file
          /\ image_env' = env
          /\ image_result' =
                 predict_from_image(cnn_available, xai, xai_model, file, env)
          /\ explanation' =
                 IF ExplanationCalled(cnn_available, xai, file, env)
                 THEN generate_explanation(xai_model, env)
                 ELSE explanation
          /\ heatmap' =
                 IF GradcamCalled(cnn_available, xai, file, env)
                 THEN generate_gradcam(xai_model, env.outcome)
                 ELSE heatmap
          /\ attention_regions' =
                 IF GradcamCalled(cnn_available, xai, file, env)
                 THEN analyze_attention_regions(
                          generate_gradcam(xai_model, env.outcome))
                 ELSE attention_regions
    /\ UNCHANGED <<rationale, score_log, combined_request, response>>
    /\ UNCHANGED <<ml_model, cnn_available, xai, xai_model, feature_columns,
                   questionnaire_data, questionnaire_env,
                   questionnaire_result, verdict>>
    /\ UNCHANGED <<img_array, grads>>

\* ASDUnifiedSystem.__init__: each of the three loads may fail; the
\* explainer is constructed without a model.
Init ==
    /\ NoCalls
    /\ ml_model \in {Loaded, NoneVal}
    /\ feature_columns =
           IF ml_model = NoneVal THEN NoneVal
           ELSE PyList(<<"A1", "A2", "A3", "A4", "A5", "A6", "A7", "A8", "A9",
                         "A10", "Age", "Sex", "Jaundice", "Family_mem_with_ASD">>)
    /\ cnn_available \in BOOLEAN
    /\ xai \in {Present, NoneVal}
    /\ xai_model = NoneVal
    /\ questionnaire_data = NoneVal
    /\ image_file = NoneVal
    /\ questionnaire_env = NoneVal
    /\ image_env = NoneVal
    /\ img_array = NoneVal
    /\ grads = NoneVal
    /\ heatmap = NoneVal
    /\ attention_regions = NoneVal
    /\ questionnaire_result = NoneVal
    /\ image_result = NoneVal
    /\ verdict = NoneVal

Next == PredictFromQuestionnaire \/ PredictFromImage \/ CombinedPrediction

Spec == Init /\ [][Next]_vars

(***************************************************************************)
(* SpecCombined: the route /api/predict/combined on the unified system.    *)
(***************************************************************************)
\* The JSON values of the field "data": a complete body with every item
\* answered "yes", one with nothing answered, an empty object and null.
CombinedBodies ==
    { PyDict([ age |-> PyInt(24), sex |-> PyStr(<<"M">>),
               jaundice |-> PyStr(<<"n", "o">>),
               family_asd |-> PyStr(<<"n", "o">>),
               responses |-> PyDict(f) ]) :
        f \in { [id \in QuestionIds |-> PyStr(<<"y", "e", "s">>)], << >> } }
    \cup { PyDict(<< >>), NoneVal }

\* The form field "data" of a request: absent, empty, a text json.loads
\* rejects, or the text of a JSON value.
FormData ==
    { [kind |-> "absent"], [kind |-> "empty"], [kind |-> "unparsable"] }
    \cup { [kind |-> "json", value |-> d] : d \in CombinedBodies }

\* The requests: a "data" field and an uploaded "image" (NoneVal: none).
CombinedRequests == [ data : FormData, image : ImageFiles \cup {NoneVal} ]

\* Lines 325-331: questionnaire_result, None unless "data" is a non-empty
\* text that json.loads accepts.
CombinedQuestionnaireResult(model, columns, data, env) ==
    IF data.kind \in {"absent", "empty"} THEN NoneVal
    ELSE IF data.kind = "unparsable" THEN NoneVal
    ELSE predict_from_questionnaire(model, columns, data.value, env)

\* Lines 333-338: image_result, None unless an "image" was uploaded.
CombinedImageResult(available, explainer, model, image, env) ==
    IF image = NoneVal THEN NoneVal
    ELSE predict_from_image(available, explainer, model, image, env)

\* A slip: a missing result replaced by an empty one and fused all the same.
CombinedResponse_alwaysFuses(q_res, i_res) ==
    IF q_res = NoneVal /\ i_res = NoneVal
    THEN [body |-> [error |-> "No valid data provided"], status |-> 400]
    ELSE [ body   |-> combined_prediction(
                          IF q_res = NoneVal THEN [source |-> "questionnaire"] ELSE q_res,
                          IF i_res = NoneVal THEN [source |-> "image"] ELSE i_res),
           status |-> 200 ]

\* Lines 340-348: what the route returns for the two results.
CombinedResponse(q_res, i_res) ==
    IF q_res # NoneVal /\ i_res # NoneVal
    THEN [body |-> combined_prediction(q_res, i_res), status |-> 200]
    ELSE IF q_res # NoneVal THEN [body |-> q_res, status |-> 200]
    ELSE IF i_res # NoneVal THEN [body |-> i_res, status |-> 200]
    ELSE [body |-> [error |-> "No valid data provided"], status |-> 400]

\* POST /api/predict/combined.  The results of the two calls and of the
\* fusion, when made, are kept in questionnaire_result, image_result,
\* explanation and verdict; q_env and i_env are what the environment does
\* during the calls that are made.
PredictCombined ==
    /\ response = NoneVal
    /\ \E req \in CombinedRequests :
       \E q_env \in IF req.data.kind = "json" THEN QuestionnaireEnvs ELSE {NoneVal},
          i_env \in IF req.image # NoneVal THEN ImageEnvs(xai_model) ELSE {NoneVal} :
          LET q_res == CombinedQuestionnaireResult(ml_model, feature_columns,
                                                   req.data, q_env)
              i_res == CombinedImageResult(cnn_available, xai, xai_model,
                                           req.image, i_env)
          IN  /\ combined_request' = req
              /\ questionnaire_env' = q_env
              /\ image_env' = i_env
              /\ questionnaire_result' = q_res
              /\ image_result' = i_res
              /\ explanation' =
                     IF req.image # NoneVal
                        /\ ExplanationCalled(cnn_available, xai, req.image, i_env)
                     THEN generate_explanation(xai_model, i_env)
                     ELSE explanation
              /\ heatmap' =
                     IF req.image # NoneVal
                        /\ GradcamCalled(cnn_available, xai, req.image, i_env)
                     THEN generate_gradcam(xai_model, i_env.outcome)
                     ELSE heatmap
              /\ attention_regions' =
                     IF req.image # NoneVal
                        /\ GradcamCalled(cnn_available, xai, req.image, i_env)
                     THEN analyze_attention_regions(
                              generate_gradcam(xai_model, i_env.outcome))
                     ELSE attention_regions
              /\ verdict' = IF q_res # NoneVal /\ i_res # NoneVal
                            THEN combined_prediction(q_res, i_res)
                            ELSE verdict
              /\ response' = CombinedResponse(q_res, i_res)
    /\ UNCHANGED <<ml_model, cnn_available, xai, xai_model, feature_columns,
                   questionnaire_data, image_file, rationale, score_log>>
    /\ UNCHANGED <<img_array, grads>>

NextCombined == PredictCombined

SpecCombined == Init /\ [][NextCombined]_vars

(***************************************************************************)
(* SpecScoring: the engine scoring response sets one after the other.      *)
(* Each call is logged: the response set given, the response set as the    *)
(* call leaves it, the scores returned and their sum.                      *)
(***************************************************************************)
\* Response sets scored: those of SystemForms and four with one answer.
ScoringForms ==
    SystemForms
    \cup { [id \in {"A1"} |-> PyStr(<<"Y", "e", "s">>)],
           [id \in {"A1"} |-> PyInt(1)],
           [id \in {"A10"} |-> PyStr(<<"y", "e", "s", " ">>)],
           [id \in {"A11"} |-> PyStr(<<"y", "e", "s">>)] }

\* One call: score_responses only reads `responses` (responses.get) and
\* fills a dict of its own, so the set is left as it was given.
ScoringCall(responses) ==
    LET scored == score_responses(responses)
    IN  [ given       |-> responses,
          left        |-> responses,
          scored      |-> scored,
          total_score |-> TotalScore(scored) ]

\* A slip: the total kept on the engine and added to by every call.
ScoreResponses_accumulating ==
    /\ ml_model # NoneVal
    /\ Len(score_log) < MaxScorings
    /\ \E responses \in ScoringForms :
          LET call == ScoringCall(responses)
              carried == IF score_log = << >> THEN 0
                         ELSE score_log[Len(score_log)].total_score
          IN  score_log' =
                  Append(score_log,
                         [call EXCEPT !.total_score = @ + carried])
    /\ UNCHANGED <<ml_model, cnn_available, xai, xai_model, feature_columns,
                   questionnaire_data, image_file, questionnaire_env, image_env,
                   questionnaire_result, image_result, verdict,
                   explanation, rationale, combined_request, response>>
    /\ UNCHANGED xai_vars

\* score_responses(responses), and the total predict takes of its result.
ScoreResponses ==
    /\ ml_model # NoneVal
    /\ Len(score_log) < MaxScorings
    /\ \E responses \in ScoringForms :
          score_log' = Append(score_log, ScoringCall(responses))
    /\ UNCHANGED <<ml_model, cnn_available, xai, xai_model, feature_columns,
                   questionnaire_data, image_file, questionnaire_env, image_env,
                   questionnaire_result, image_result, verdict,
                   explanation, rationale, combined_request, response>>
    /\ UNCHANGED xai_vars

InitScoring ==
    /\ NoCalls
    /\ ml_model = Loaded
    /\ cnn_available = FALSE
    /\ xai = NoneVal
    /\ xai_model = NoneVal
    /\ feature_columns \in { PyList(cols) : cols \in ColumnLists }
    /\ questionnaire_data = NoneVal
    /\ image_file = NoneVal
    /\ questionnaire_env = NoneVal
    /\ image_env = NoneVal
    /\ img_array = NoneVal
    /\ grads = NoneVal
    /\ heatmap = NoneVal
    /\ attention_regions = NoneVal
    /\ questionnaire_result = NoneVal
    /\ image_result = NoneVal
    /\ verdict = NoneVal

NextScoring == ScoreResponses

SpecScoring == InitScoring /\ [][NextScoring]_vars

(***************************************************************************)
(* SpecOmission: the engine on a response set as it was given and on the   *)
(* same set with one of its "no" answers left out.  Each call is logged    *)
(* with the feature row built from its scores.                             *)
(***************************************************************************)
\* Response sets: every item answered with at most one "no", every item
\* answered "no", and a single item answered "no".
OmissionForms ==
    { [id \in QuestionIds |-> PyStr(<<"y", "e", "s">>)],
      [id \in QuestionIds |-> PyStr(<<"n", "o">>)] }
    \cup { [id \in QuestionIds |-> IF id = no THEN PyStr(<<"n", "o">>)
                                               ELSE PyStr(<<"y", "e", "s">>)] :
             no \in QuestionIds }
    \cup { [id \in {no} |-> PyStr(<<"n", "o">>)] : no \in QuestionIds }

\* responses with the answer to id taken out.
Without(responses, id) == [k \in DOMAIN responses \ {id} |-> responses[k]]

\* predict, lines 103-108, on the response set: the scores, their sum and
\* the feature row; omitted names the item taken out of the set ("" for
\* none).
EngineCall(child_info, responses, columns, omitted) ==
    LET scored == score_responses(responses)
    IN  [ given       |-> responses,
          left        |-> responses,
          scored      |-> scored,
          total_score |-> TotalScore(scored),
          row         |-> prepare_input(child_info, scored, columns).row,
          omitted     |-> omitted ]

\* The request answered as it was given.
ScoreAsGiven ==
    /\ questionnaire_data # NoneVal
    /\ \A k \in DOMAIN score_log : score_log[k].omitted # ""
    /\ score_log' =
           Append(score_log,
                  EngineCall(questionnaire_data.d.child_info.d,
                             questionnaire_data.d.responses.d,
                             feature_columns.l, ""))
    /\ UNCHANGED <<ml_model, cnn_available, xai, xai_model, feature_columns,
                   questionnaire_data, image_file, questionnaire_env, image_env,
                   questionnaire_result, image_result, verdict,
                   explanation, rationale, combined_request, response>>
    /\ UNCHANGED xai_vars

\* The request answered with one of its "no" answers left out.
ScoreLeavingOut ==
    /\ questionnaire_data # NoneVal
    /\ \A k \in DOMAIN score_log : score_log[k].omitted = ""
    /\ \E id \in DOMAIN questionnaire_data.d.responses.d :
          /\ questionnaire_data.d.responses.d[id] = PyStr(<<"n", "o">>)
          /\ score_log' =
                 Append(score_log,
                        EngineCall(questionnaire_data.d.child_info.d,
                                   Without(questionnaire_data.d.responses.d, id),
                                   feature_columns.l, id))
    /\ UNCHANGED <<ml_model, cnn_available, xai, xai_model, feature_columns,
                   questionnaire_data, image_file, questionnaire_env, image_env,
                   questionnaire_result, image_result, verdict,
                   explanation, rationale, combined_request, response>>
    /\ UNCHANGED xai_vars

InitOmission ==
    /\ NoCalls
    /\ ml_model = Loaded
    /\ cnn_available = FALSE
    /\ xai = NoneVal
    /\ xai_model = NoneVal
    /\ feature_columns \in { PyList(cols) : cols \in ColumnLists }
    /\ questionnaire_data \in
           { PyDict([child_info |-> PyDict(ci), responses |-> PyDict(f)]) :
               ci \in ChildInfos, f \in OmissionForms }
    /\ image_file = NoneVal
    /\ questionnaire_env = NoneVal
    /\ image_env = NoneVal
    /\ img_array = NoneVal
    /\ grads = NoneVal
    /\ heatmap = NoneVal
    /\ attention_regions = NoneVal
    /\ questionnaire_result = NoneVal
    /\ image_result = NoneVal
    /\ verdict = NoneVal

NextOmission == ScoreAsGiven \/ ScoreLeavingOut

SpecOmission == InitOmission /\ [][NextOmission]_vars

(***************************************************************************)
(* SpecFusion: combined_prediction as a function of any two modality       *)
(* results.  Init draws the two results; the one action fuses them.        *)
(***************************************************************************)
\* Results of the shape predict returns, of the shape the error paths of
\* predict_from_questionnaire return, and a result without a confidence.
FusionQuestionnaireResults ==
    { [ source |-> "questionnaire", prediction |-> p, confidence |-> c,
        risk_level |-> r ] :
        p \in {0, 1}, c \in Conf, r \in {"LOW", "MODERATE", "HIGH"} }
    \cup { [ source |-> "questionnaire", prediction |-> 0, confidence |-> 0,
             error |-> "ML model not available" ] }
    \cup { [ source |-> "questionnaire", error |-> "no confidence" ] }

FusionImageResults ==
    { [ source |-> "image", prediction |-> (IF 2 * c > ConfSteps THEN 1 ELSE 0),
        confidence |-> c ] : c \in Conf }
    \cup { [ source |-> "image", prediction |-> 0, confidence |-> 0,
             error |-> "CNN model not available" ] }
    \cup { [ source |-> "image", error |-> "no confidence" ] }

InitFusion ==
    /\ NoCalls
    /\ ml_model = Loaded
    /\ cnn_available = TRUE
    /\ xai = NoneVal
    /\ xai_model = NoneVal
    /\ feature_columns = NoneVal
    /\ questionnaire_data = NoneVal
    /\ image_file = NoneVal
    /\ questionnaire_env = NoneVal
    /\ image_env = NoneVal
    /\ img_array = NoneVal
    /\ grads = NoneVal
    /\ heatmap = NoneVal
    /\ attention_regions = NoneVal
    /\ questionnaire_result \in FusionQuestionnaireResults
    /\ image_result \in FusionImageResults
    /\ verdict = NoneVal

NextFusion == CombinedPrediction

SpecFusion == InitFusion /\ [][NextFusion]_vars

(***************************************************************************)
(* Claims about the fusion (SpecFusion).                                   *)
(***************************************************************************)
\* The confidence a result contributes: its "confidence", 0 when absent.
ConfOf(res) == Get(res, "confidence", 0)

Missing(res) ==
    \/ "confidence" \notin DOMAIN res
    \/ ("error" \in DOMAIN res /\ res.confidence = 0)

\* C2: no renormalization and no single-modality fallback.  When the
\* questionnaire is missing the fused confidence is 0.6*i, when the image is
\* missing it is 0.4*q, and it differs from the remaining modality's own
\* confidence whenever that confidence is not 0 (at 0 the two coincide).
C2_NoRenormalization ==
    verdict # NoneVal =>
        LET q == ConfOf(questionnaire_result)
            i == ConfOf(image_result)
            c == verdict.confidence
        IN  /\ Missing(questionnaire_result)
                   => /\ c = 6 * i
                      /\ (i > 0 => c # 10 * i)
            /\ Missing(image_result)
                   => /\ c = 4 * q
                      /\ (q > 0 => c # 10 * q)

\* C2 witness: the questionnaire is missing, the image is confident (0.9),
\* and the verdict carries 0.54.
C2_Witness ==
    /\ verdict # NoneVal
    /\ Missing(questionnaire_result)
    /\ 10 * ConfOf(image_result) = 9 * ConfSteps
    /\ 100 * verdict.confidence = 54 * 10 * ConfSteps

(***************************************************************************)
(* Claims about the questionnaire engine (SpecScore).                      *)
(***************************************************************************)
\* The request was answered with a prediction (not with an error).
Scored ==
    /\ questionnaire_result # NoneVal
    /\ "scored_responses" \in DOMAIN questionnaire_result

\* The response set of the request that was answered.
GivenResponses == questionnaire_data.d.responses.d

ItemIds == {"A1", "A2", "A3", "A4", "A5", "A6", "A7", "A8", "A9", "A10"}

\* The answers of AnswerValues whose lower-cased text is "yes", "y", "1" or
\* "true" (str(True) is "True").
AffirmativeAnswers ==
    { PyStr(<<"y", "e", "s">>), PyStr(<<"Y", "e", "s">>), PyStr(<<"y">>),
      PyStr(<<"1">>), PyStr(<<"t", "r", "u", "e">>),
      PyStr(<<"T", "R", "U", "E">>), PyInt(1), PyBool(TRUE) }

Affirmative(id) ==
    /\ id \in DOMAIN GivenResponses
    /\ GivenResponses[id] \in AffirmativeAnswers

\* C5: score_responses returns exactly one binary score for each of A1..A10
\* and nothing else; an answer is affirmative exactly when its lower-cased text
\* is "yes", "y", "1" or "true"; a reverse item (A1..A9) scores 0 when
\* affirmative and 1 otherwise, the direct item A10 scores 1 when affirmative
\* and 0 otherwise.
C5_ScoringRule ==
    Scored =>
        LET sc == questionnaire_result.scored_responses
        IN  /\ DOMAIN sc = ItemIds
            /\ \A id \in ItemIds \ {"A10"} :
                   sc[id] = (IF Affirmative(id) THEN 0 ELSE 1)
            /\ sc["A10"] = (IF Affirmative("A10") THEN 1 ELSE 0)

\* C5 witness: a form with A1 answered "no", A2 "yes" and A10 "yes" was scored
\* 1, 0 and 1.
C5_Witness ==
    /\ Scored
    /\ ItemIds \subseteq DOMAIN GivenResponses
    /\ GivenResponses["A1"] = PyStr(<<"n", "o">>)
    /\ GivenResponses["A2"] = PyStr(<<"y", "e", "s">>)
    /\ GivenResponses["A10"] = PyStr(<<"y", "e", "s">>)
    /\ questionnaire_result.scored_responses["A1"] = 1
    /\ questionnaire_result.scored_responses["A2"] = 0
    /\ questionnaire_result.scored_responses["A10"] = 1

\* C6 as stated: every item that is not answered is scored 0 whatever its
\* polarity, so the total_score of an all-empty response set is 0.
C6_UnansweredScoredZero ==
    Scored =>
        /\ \A id \in ItemIds \ DOMAIN GivenResponses :
               questionnaire_result.scored_responses[id] = 0
        /\ DOMAIN GivenResponses = {} => questionnaire_result.total_score = 0

\* C6 as amended: an item that is not answered is scored as if it were
\* answered "no": 1 for a reverse item (A1..A9), 0 for the direct item (A10);
\* so the total_score of an all-empty response set is 9.
C6_UnansweredScoredAsNo ==
    Scored =>
        /\ \A id \in ItemIds \ DOMAIN GivenResponses :
               questionnaire_result.scored_responses[id] =
                   (IF id = "A10" THEN 0 ELSE 1)
        /\ DOMAIN GivenResponses = {} => questionnaire_result.total_score = 9

\* C6 witness: the all-empty response set was scored, with total_score 9.
C6_Witness ==
    /\ Scored
    /\ DOMAIN GivenResponses = {}
    /\ questionnaire_result.total_score = 9

\* C7: the questionnaire risk level is HIGH for prediction 1 with
\* total_score >= 7, MODERATE for prediction 1 with total_score <= 6, LOW for
\* prediction 0 whatever the total_score and the confidence; total_score is
\* the sum of the ten item scores and max_score is 10.
C7_QuestionnaireRisk ==
    Scored =>
        LET res == questionnaire_result
            sc  == res.scored_responses
        IN  /\ res.total_score =
                   sc["A1"] + sc["A2"] + sc["A3"] + sc["A4"] + sc["A5"]
                   + sc["A6"] + sc["A7"] + sc["A8"] + sc["A9"] + sc["A10"]
            /\ res.max_score = 10
            /\ (res.prediction = 1 /\ res.total_score >= 7)
                   => res.risk_level = "HIGH"
            /\ (res.prediction = 1 /\ res.total_score <= 6)
                   => res.risk_level = "MODERATE"
            /\ res.prediction = 0 => res.risk_level = "LOW"

\* C7 witness: prediction 1 with total_score exactly 7, which is HIGH.
C7_Witness ==
    /\ Scored
    /\ questionnaire_result.prediction = 1
    /\ questionnaire_result.total_score = 7
    /\ questionnaire_result.risk_level = "HIGH"

(***************************************************************************)
(* Claims about the explainer (SpecXai).                                   *)
(***************************************************************************)
\* generate_gradcam has returned.
GradcamDone == img_array # NoneVal /\ heatmap # NoneVal

\* The map is the constant 0.5.
IsNeutral(map) == \A c \in DOMAIN map.num : 2 * map.num[c] = map.den

\* The blurred gradient magnitude has one value only.
DegenerateGradient ==
    LET blurred == GaussianBlur(ChannelMagnitude(grads.g), grads.h, grads.w)
    IN  \A c, d \in Cells(grads.h, grads.w) : blurred[c] = blurred[d]

\* The cases in which generate_gradcam falls back: no classifier, an
\* exception, no gradient, a constant gradient map.
GradcamFallback ==
    \/ xai_model = NoneVal
    \/ IsRaised(grads)
    \/ grads = NoneVal
    \/ DegenerateGradient

\* C8: generate_gradcam always returns a map of the fixed shape (224 x 224,
\* here HeatmapSide x HeatmapSide) whose values lie in [0,1]: a map with
\* minimum 0 and maximum 1 on success, the constant 0.5 when the classifier
\* is not set, the gradient is missing, the gradient map is constant, or an
\* exception occurs.
C8_GradcamRange ==
    GradcamDone =>
        /\ heatmap.h = HeatmapSide /\ heatmap.w = HeatmapSide
        /\ DOMAIN heatmap.num = Cells(HeatmapSide, HeatmapSide)
        /\ heatmap.den > 0
        /\ \A c \in DOMAIN heatmap.num :
               heatmap.num[c] >= 0 /\ heatmap.num[c] <= heatmap.den
        /\ GradcamFallback => IsNeutral(heatmap)
        /\ ~GradcamFallback =>
               /\ \E c \in DOMAIN heatmap.num : heatmap.num[c] = 0
               /\ \E c \in DOMAIN heatmap.num : heatmap.num[c] = heatmap.den

\* C8 witness: with a classifier set and a gradient that is not constant,
\* generate_gradcam returned a map that is not the neutral one.
C8_Witness ==
    /\ GradcamDone
    /\ xai_model = Loaded
    /\ ~GradcamFallback
    /\ ~IsNeutral(heatmap)

\* The region names in declaration order.
DeclaredRegions ==
    <<"upper_face", "eyes_region", "mid_face", "lower_face", "overall">>

DeclarationIndex(name) == CHOOSE k \in 1..5 : DeclaredRegions[k] = name

ScoreEqual(a, b) == a.num * b.den = b.num * a.den

\* C9: analyze_attention_regions returns the five catalog regions, each
\* exactly once, in non-increasing order of score, and regions of equal score
\* in declaration order.  These conditions fix the ranking of a map
\* uniquely, so two analyses of the same map return the same ranking.
C9_RankedRegions ==
    attention_regions # NoneVal =>
        /\ Len(attention_regions) = 5
        /\ { attention_regions[k][1] : k \in 1..5 }
               = {"upper_face", "eyes_region", "mid_face", "lower_face", "overall"}
        /\ \A k \in 1..4 :
               LET a == attention_regions[k]
                   b == attention_regions[k + 1]
               IN  /\ a[2].den > 0 /\ b[2].den > 0
                   /\ a[2].num * b[2].den >= b[2].num * a[2].den
                   /\ ScoreEqual(a[2], b[2])
                          => DeclarationIndex(a[1]) < DeclarationIndex(b[1])

\* C9 witness: a ranking that begins with a region other than the first
\* declared and holds two adjacent regions of equal score.
C9_Witness ==
    /\ attention_regions # NoneVal
    /\ attention_regions[1][1] # "upper_face"
    /\ \E k \in 1..4 : ScoreEqual(attention_regions[k][2], attention_regions[k + 1][2])

\* The fractional windows of the four facial regions, in hundredths:
\* <<top, bottom, left, right>>.
StatedWindows ==
    [ upper_face  |-> <<20, 40, 20, 80>>,
      eyes_region |-> <<30, 45, 25, 75>>,
      mid_face    |-> <<40, 60, 30, 70>>,
      lower_face  |-> <<60, 80, 25, 75>> ]

\* Rows and columns from floor(lower * size) up to, not including,
\* floor(upper * size).
StatedCells(name, h, w) ==
    IF name = "overall" THEN Cells(h, w)
    ELSE LET f == StatedWindows[name]
         IN  { c \in Cells(h, w) :
                 /\ (f[1] * h) \div 100 <= c[1] /\ c[1] < (f[2] * h) \div 100
                 /\ (f[3] * w) \div 100 <= c[2] /\ c[2] < (f[4] * w) \div 100 }

\* score = (sum of the map's values over cells) / (number of cells)
IsMeanOver(score, map, cells) ==
    /\ cells # {}
    /\ score.den > 0
    /\ score.num * (Cardinality(cells) * map.den)
           = SumCells(map.num, cells) * score.den

\* C10: the score reported for "overall" is the mean of all values of the
\* map, and every other region's score is the mean of the values inside its
\* fractional window.
C10_RegionMeans ==
    attention_regions # NoneVal =>
        \A k \in DOMAIN attention_regions :
            IsMeanOver(attention_regions[k][2], heatmap,
                       StatedCells(attention_regions[k][1], heatmap.h, heatmap.w))

\* C10 witness: a map that is not uniform was analyzed, and "overall" and
\* "upper_face" got different scores.
C10_Witness ==
    /\ attention_regions # NoneVal
    /\ \E j, k \in 1..5 :
          /\ attention_regions[j][1] = "overall"
          /\ attention_regions[k][1] = "upper_face"
          /\ ~ScoreEqual(attention_regions[j][2], attention_regions[k][2])

(***************************************************************************)
(* Claims about the unified system (Spec).                                 *)
(***************************************************************************)
\* A structured failure of a modality: its source tag, prediction 0,
\* confidence 0 and an error text that is not empty.
ModalityFailure(res, tag) ==
    /\ ~IsRaised(res)
    /\ {"source", "prediction", "confidence", "error"} \subseteq DOMAIN res
    /\ res.source = tag
    /\ res.prediction = 0
    /\ res.confidence = 0
    /\ res.error # ""

\* The questionnaire request met a failure: the model did not load, the
\* engine could not be set up, the body is null or lacks a field, the
\* responses are null, or the classifier raised.
QuestionnaireStepFailed ==
    \/ ml_model = NoneVal
    \/ ~questionnaire_env.engine_ok
    \/ questionnaire_data = NoneVal
    \/ \E k \in DOMAIN RequestFields :
           RequestFields[k] \notin DOMAIN questionnaire_data.d
    \/ questionnaire_data.d.responses = NoneVal
    \/ IsRaised(questionnaire_env.clf)

\* The image request met a failure: the classifier did not load, the upload
\* cannot be decoded, or the classifier raised.
ImageStepFailed ==
    \/ ~cnn_available
    \/ ~image_file.decodable
    \/ IsRaised(image_env.cnn)

\* The verdict is a complete fused result of the two stored results.
VerdictReturned ==
    /\ ~IsRaised(verdict)
    /\ verdict = combined_prediction(questionnaire_result, image_result)
    /\ verdict.prediction \in {0, 1}
    /\ verdict.risk_level \in {"LOW", "MODERATE", "HIGH"}
    /\ verdict.questionnaire_details = questionnaire_result
    /\ verdict.image_details = image_result

\* C3: neither modality call raises, whatever the request and whichever
\* models loaded: each returns a result carrying its source tag, and when the
\* model is not loaded or a step fails (missing request field, undecodable
\* image, classifier error) the result has prediction 0, confidence 0 and a
\* non-empty error; the fusion of such results can be taken and returns a
\* verdict.
C3_StructuredFailure ==
    /\ questionnaire_result # NoneVal =>
          /\ ~IsRaised(questionnaire_result)
          /\ "source" \in DOMAIN questionnaire_result
          /\ questionnaire_result.source = "questionnaire"
          /\ QuestionnaireStepFailed =>
                 ModalityFailure(questionnaire_result, "questionnaire")
    /\ image_result # NoneVal =>
          /\ ~IsRaised(image_result)
          /\ "source" \in DOMAIN image_result
          /\ image_result.source = "image"
          /\ ImageStepFailed => ModalityFailure(image_result, "image")
    /\ (questionnaire_result # NoneVal /\ image_result # NoneVal) =>
          IF verdict = NoneVal THEN ENABLED CombinedPrediction
                               ELSE VerdictReturned

\* C3 witness: with both models loaded, a request body without "age" and an
\* upload that cannot be decoded were answered and their results fused.
C3_Witness ==
    /\ ml_model = Loaded
    /\ cnn_available
    /\ questionnaire_result # NoneVal
    /\ questionnaire_env.engine_ok
    /\ questionnaire_data # NoneVal
    /\ "age" \notin DOMAIN questionnaire_data.d
    /\ questionnaire_result.error = "'age'"
    /\ image_result # NoneVal
    /\ ~image_file.decodable
    /\ image_result.error = "cannot identify image file"
    /\ verdict # NoneVal
    /\ verdict.risk_level = "LOW"

\* The three statements of the fixed disclaimer.
Disclaimers ==
    { Txt("Facial features alone are insufficient for diagnosis"),
      Txt("Professional clinical evaluation is always required"),
      Txt("This tool should only be used as part of comprehensive screening") }

CarriesDisclaimer(text) ==
    \A d \in Disclaimers : \E k \in DOMAIN text.segments : text.segments[k] = d

\* C4: every fused verdict carries the fixed disclaimer language (facial
\* features alone are insufficient for diagnosis, professional clinical
\* evaluation is required, screening support only), whatever the state of
\* the image modality.  The only text of a verdict is the rationale of its
\* image details.
C4_VerdictCarriesDisclaimer ==
    verdict # NoneVal =>
        /\ "llm_explanation" \in DOMAIN verdict.image_details
        /\ CarriesDisclaimer(verdict.image_details.llm_explanation)

\* The text is the given prefix followed by a message that is not empty.
CarriesError(text, prefix) ==
    /\ Len(text.segments) = 2
    /\ text.segments[1] = Txt(prefix)
    /\ "text" \in DOMAIN text.segments[2]
    /\ text.segments[2].text # ""

StatedDisclaimers ==
    { Txt("Facial features alone are insufficient for diagnosis"),
      Txt("Professional clinical evaluation is always required"),
      Txt("This is a screening tool, not a diagnostic instrument.") }

\* Segment k of the text names the region and segments k+1, k+2 give its
\* score as a percentage with two decimals: p hundredths of a percent with
\* |p/10000 - score| <= 1/20000.
NamesWithScore(text, k, item) ==
    /\ k + 2 <= Len(text.segments)
    /\ text.segments[k] = RegionName(item[1])
    /\ text.segments[k + 1] = Txt("attention:")
    /\ "percent" \in DOMAIN text.segments[k + 2]
    /\ LET p == text.segments[k + 2].percent
       IN  /\ 2 * (p * item[2].den - item[2].num * 10000) <= item[2].den
           /\ 2 * (item[2].num * 10000 - p * item[2].den) <= item[2].den

\* C12: for every ranked region list with at least two entries the rationale
\* names the first region and then the second, each with its score, and
\* contains the fixed disclaimer statements, whichever regions rank first
\* and whatever their scores.
C12_RationaleContent ==
    (rationale # NoneVal /\ Len(attention_regions) >= 2) =>
        /\ ~IsRaised(rationale)
        /\ \E j, k \in DOMAIN rationale.segments :
              /\ j < k
              /\ NamesWithScore(rationale, j, attention_regions[1])
              /\ NamesWithScore(rationale, k, attention_regions[2])
        /\ \A d \in StatedDisclaimers :
              \E k \in DOMAIN rationale.segments : rationale.segments[k] = d

\* C12 witness: a rationale was written for a list led by lower_face with a
\* score of 2/3, followed by a region other than eyes_region.
C12_Witness ==
    /\ rationale # NoneVal
    /\ Len(attention_regions) >= 2
    /\ attention_regions[1] = <<"lower_face", [num |-> 2, den |-> 3]>>
    /\ attention_regions[2][1] # "eyes_region"
    /\ ~IsRaised(rationale)

(***************************************************************************)
(* Claims about the feature row (SpecScore).                               *)
(***************************************************************************)
\* The frame the classifier was given while the request was answered.
FeatureFrame == questionnaire_env.X

FrameBuilt ==
    /\ questionnaire_result # NoneVal
    /\ FeatureFrame # NoneVal

GivenChildInfo == questionnaire_data.d.child_info.d

\* The values of the requests that read as male, and as "yes".
MaleAnswers == { PyStr(<<"M">>), PyStr(<<"m">>), PyStr(<<"m", "a", "l", "e">>) }

YesAnswers == AffirmativeAnswers \cup { PyStr(<<"Y", "E", "S">>) }

\* The value the row must hold in a column of the given name.
StatedValue(column) ==
    CASE column = "Age" ->
            IF "age" \in DOMAIN GivenChildInfo THEN GivenChildInfo.age.n ELSE 36
      [] column = "Sex" ->
            IF "sex" \in DOMAIN GivenChildInfo /\ GivenChildInfo.sex \in MaleAnswers
            THEN 0 ELSE 1
      [] column = "Jaundice" ->
            IF "jaundice" \in DOMAIN GivenChildInfo
               /\ GivenChildInfo.jaundice \in YesAnswers
            THEN 1 ELSE 0
      [] column = "Family_mem_with_ASD" ->
            IF "family_asd" \in DOMAIN GivenChildInfo
               /\ GivenChildInfo.family_asd \in YesAnswers
            THEN 1 ELSE 0
      [] column \in ItemIds -> score_responses(GivenResponses)[column]
      [] OTHER -> 0

\* C13: the frame prepare_input returns has one row; its columns are the
\* classifier's feature columns in their order; a column named Age, Sex,
\* Jaundice, Family_mem_with_ASD or A1..A10 holds the demographic or scored
\* value, every other column holds 0, and the row holds nothing else.
C13_FeatureRow ==
    FrameBuilt =>
        /\ DOMAIN FeatureFrame = {"columns", "row"}
        /\ FeatureFrame.columns = feature_columns.l
        /\ DOMAIN FeatureFrame.row = DOMAIN feature_columns.l
        /\ \A k \in DOMAIN feature_columns.l :
              FeatureFrame.row[k] = StatedValue(feature_columns.l[k])

\* C13 witness: a frame was built for a classifier that expects a column the
\* request has no value for, and lacks columns the request has values for; the
\* row holds the age given in the request.
C13_Witness ==
    /\ FrameBuilt
    /\ \E k \in DOMAIN feature_columns.l : feature_columns.l[k] = "Ethnicity"
    /\ \A k \in DOMAIN feature_columns.l : feature_columns.l[k] # "Jaundice"
    /\ \E k \in DOMAIN feature_columns.l :
          /\ feature_columns.l[k] = "Age"
          /\ FeatureFrame.row[k] = 24

(***************************************************************************)
(* Claims about the shared state of the unified system (Spec).             *)
(***************************************************************************)
\* What the requests share: the models loaded at construction, the expected
\* columns, the explainer and its model.  (The question and region catalogs
\* are literals built anew by each call.)
SharedState == <<ml_model, feature_columns, cnn_available, xai, xai_model>>

\* Every result held is the one its request yields when it runs alone on
\* the system: a function of the shared state, the request and what the
\* environment did during that request only.
ResultsAsAlone ==
    /\ questionnaire_result # NoneVal =>
          questionnaire_result =
              predict_from_questionnaire(ml_model, feature_columns,
                                         questionnaire_data, questionnaire_env)
    /\ image_result # NoneVal =>
          image_result =
              predict_from_image(cnn_available, xai, xai_model,
                                 image_file, image_env)
    /\ explanation # NoneVal =>
          explanation = generate_explanation(xai_model, image_env)
    /\ verdict # NoneVal =>
          verdict = combined_prediction(questionnaire_result, image_result)

Answered == response # NoneVal

\* The request carried questionnaire data the route could parse; an image.
DataObtained  == combined_request.data.kind = "json"
ImageObtained == combined_request.image # NoneVal

\* The body is a fused verdict: it has the fields only combined_prediction
\* writes.
IsFused(body) ==
    {"questionnaire_details", "image_details"} \subseteq DOMAIN body

\* C16: predict_combined fuses exactly when a questionnaire result and an
\* image result were both obtained; with one of them only (the other not
\* supplied, or its data not parsable) the body is that modality's own
\* result, unweighted and without a fused risk level; with none the answer
\* is the error "No valid data provided" with status 400.
C16_CombinedEndpoint ==
    Answered =>
        /\ (questionnaire_result # NoneVal) = DataObtained
        /\ (image_result # NoneVal) = ImageObtained
        /\ (DataObtained /\ ImageObtained) =>
              /\ response.status = 200
              /\ IsFused(response.body)
              /\ response.body =
                     combined_prediction(questionnaire_result, image_result)
        /\ (DataObtained /\ ~ImageObtained) =>
              /\ response.status = 200
              /\ response.body = questionnaire_result
              /\ response.body.source = "questionnaire"
              /\ ~IsFused(response.body)
              /\ verdict = NoneVal
        /\ (~DataObtained /\ ImageObtained) =>
              /\ response.status = 200
              /\ response.body = image_result
              /\ response.body.source = "image"
              /\ ~IsFused(response.body)
              /\ verdict = NoneVal
        /\ (~DataObtained /\ ~ImageObtained) =>
              /\ response.status = 400
              /\ response.body = [error |-> "No valid data provided"]
              /\ verdict = NoneVal

\* C16 witness: a request whose data could not be parsed and whose image
\* the classifier scored 1.0 was answered with the image result alone, of
\* confidence 1.0 rather than 0.6.
C16_Witness ==
    /\ Answered
    /\ combined_request.data.kind = "unparsable"
    /\ ImageObtained
    /\ response.body.source = "image"
    /\ response.body.confidence = ConfSteps

(***************************************************************************)
(* Claims about one-sided fusion (SpecFusion).                             *)
(***************************************************************************)
\* C17: when the image confidence is 0 the verdict is prediction 0 and LOW
\* for every questionnaire confidence, 1.0 included; when the questionnaire
\* confidence is 0 the verdict is never HIGH, and it is MODERATE with
\* prediction 1 exactly when the image confidence is above 5/6 (LOW with
\* prediction 0 otherwise).
C17_OneSidedFusion ==
    verdict # NoneVal =>
        LET q == ConfOf(questionnaire_result)
            i == ConfOf(image_result)
        IN  /\ i = 0 => /\ verdict.prediction = 0
                        /\ verdict.risk_level = "LOW"
            /\ q = 0 => /\ verdict.risk_level # "HIGH"
                        /\ (verdict.risk_level = "MODERATE") = (6 * i > 5 * ConfSteps)
                        /\ (verdict.prediction = 1) = (6 * i > 5 * ConfSteps)

\* C17 witness: a questionnaire without confidence fused with an image
\* confidence one step above 5/6 gives MODERATE.
C17_Witness ==
    /\ verdict # NoneVal
    /\ ConfOf(questionnaire_result) = 0
    /\ 6 * ConfOf(image_result) > 5 * ConfSteps
    /\ 6 * (ConfOf(image_result) - 1) <= 5 * ConfSteps
    /\ verdict.risk_level = "MODERATE"
    /\ verdict.prediction = 1

(***************************************************************************)
(* Claims about prediction and explanation (Spec).                         *)
(***************************************************************************)
\* The image classifier scored the upload.
ImageScored ==
    /\ image_result # NoneVal
    /\ cnn_available
    /\ image_file.decodable
    /\ ~IsRaised(image_env.cnn)

\* C18: whenever the image classifier scored the upload, the result has
\* that score as confidence, prediction 1 exactly when the score is above
\* 0.5, and no error field -- whether the explanation was produced, the
\* attribution fell back to the neutral map, the overlay could not be
\* rendered, generate_explanation failed, or the system has no explainer.
C18_PredictionSurvivesExplanation ==
    ImageScored =>
        /\ image_result.confidence = image_env.cnn.score
        /\ (image_result.prediction = 1) = (2 * image_env.cnn.score > ConfSteps)
        /\ image_result.prediction \in {0, 1}
        /\ "error" \notin DOMAIN image_result

\* C18 witness: the classifier scored the upload 1.0, the overlay could not
\* be rendered, and the result predicts 1 with an empty overlay.
C18_Witness ==
    /\ ImageScored
    /\ xai # NoneVal
    /\ image_env.preprocess_ok
    /\ ~image_env.rendering_ok
    /\ image_result.heatmap_base64 = ""
    /\ image_result.confidence = ConfSteps
    /\ image_result.prediction = 1

(***************************************************************************)
(* Claims about unanswered items (SpecOmission).                           *)
(***************************************************************************)
\* C19: for every item and every response set that answers it "no", the
\* same set without that answer gets the same score for the item, the same
\* scores, the same total_score and the same feature row.
C19_OmittedSameAsNo ==
    \A i, j \in DOMAIN score_log :
        (score_log[i].omitted = "" /\ score_log[j].omitted # "") =>
            LET id == score_log[j].omitted
            IN  /\ id \in DOMAIN score_log[i].given
                /\ score_log[i].given[id] = PyStr(<<"n", "o">>)
                /\ id \notin DOMAIN score_log[j].given
                /\ score_log[j].scored[id] = score_log[i].scored[id]
                /\ score_log[j].scored = score_log[i].scored
                /\ score_log[j].total_score = score_log[i].total_score
                /\ score_log[j].row = score_log[i].row

\* C19 witness: a set answering every item "yes" except A3 was scored with
\* A3 left out and then as given; A3 scores 1 both times, the total is 2
\* (A3 and A10) and the row has the classifier's fourteen columns.
C19_Witness ==
    /\ Len(score_log) = 2
    /\ score_log[1].omitted = "A3"
    /\ score_log[2].omitted = ""
    /\ score_log[1].scored["A3"] = 1
    /\ score_log[2].scored["A3"] = 1
    /\ score_log[2].total_score = 2
    /\ Len(score_log[2].row) = 14

\* The explanation held is a successful one: it lists regions.
ExplanationSucceeded ==
    /\ explanation # NoneVal
    /\ Len(explanation.attention_regions) > 0

\* The score is exactly 0.5.
IsHalf(score) == score.den > 0 /\ 2 * score.num = score.den

Explained ==
    /\ explanation # NoneVal
    /\ image_env.preprocess_ok

\* The payload carries the analysis of the ranked list `regions`: their
\* names in order, one summary entry per region with its score, and the
\* rationale naming the first two with their scores.
CarriesAnalysis(payload, regions) ==
    /\ payload.attention_regions = [k \in DOMAIN regions |-> regions[k][1]]
    /\ DOMAIN payload.facial_regions.l = DOMAIN regions
    /\ \A k \in DOMAIN regions :
          /\ payload.facial_regions.l[k].region = regions[k][1]
          /\ payload.facial_regions.l[k].attention_score = regions[k][2]
    /\ LET text == payload.llm_explanation.segments
       IN  \E j, k \in DOMAIN text :
              /\ j < k
              /\ text[j] = RegionName(regions[1][1])
              /\ text[j + 2] = Percent(regions[1][2])
              /\ text[k] = RegionName(regions[2][1])
              /\ text[k + 2] = Percent(regions[2][2])

\* C21: when the overlay cannot be rendered, generate_explanation returns
\* "" as heatmap_base64 and still returns the five ranked regions of the
\* map, the summary of each with its score, and the rationale naming the
\* first two and carrying the disclaimer; when it can be rendered the same
\* parts are returned with a non-empty overlay.
C21_OverlayFailureIsolated ==
    Explained =>
        /\ explanation.heatmap_base64 = "" <=> ~image_env.rendering_ok
        /\ Len(attention_regions) = 5
        /\ CarriesAnalysis(explanation, attention_regions)
        /\ CarriesDisclaimer(explanation.llm_explanation)

\* C21 witness: on an explainer with a classifier the overlay could not be
\* rendered, and the explanation ranks a region other than upper_face first.
C21_Witness ==
    /\ Explained
    /\ xai_model # NoneVal
    /\ ~image_env.rendering_ok
    /\ explanation.heatmap_base64 = ""
    /\ Len(explanation.attention_regions) = 5
    /\ explanation.attention_regions[1] # "upper_face"

(***************************************************************************)
(* Claims about an empty ranked list (SpecRationale).                      *)
(***************************************************************************)
\* C22: when the ranked region list is empty, rationale generation fails
\* with the dedicated error InsufficientRegionData.
C22_InsufficientRegionData ==
    (rationale # NoneVal /\ Len(attention_regions) = 0) =>
        rationale = Raised("InsufficientRegionData")

(***************************************************************************)
(* Claims about the verdict's consistency (SpecFusion).                    *)
(***************************************************************************)
\* The fields of a verdict other than the embedded source results.
VerdictCore(v) ==
    <<v.prediction, v.prediction_label, v.confidence, v.risk_level>>

\* The verdict at hand agrees with itself and embeds the two results.
VerdictConsistent ==
    verdict # NoneVal =>
        /\ verdict.prediction \in {0, 1}
        /\ verdict.prediction = 1 <=> verdict.risk_level \in {"MODERATE", "HIGH"}
        /\ verdict.prediction = 0 <=> verdict.risk_level = "LOW"
        /\ verdict.prediction_label =
               (IF verdict.prediction = 1 THEN "ELEVATED_RISK" ELSE "LOW_RISK")
        /\ verdict.questionnaire_details = questionnaire_result
        /\ verdict.image_details = image_result

\* Any two results with the confidences of the two at hand, whatever their
\* own predictions, risk levels and error fields, fuse to the same verdict.
VerdictFromConfidencesOnly ==
    verdict # NoneVal =>
        LET qs == { r \in FusionQuestionnaireResults :
                      ConfOf(r) = ConfOf(questionnaire_result) }
            is == { r \in FusionImageResults :
                      ConfOf(r) = ConfOf(image_result) }
        IN  \A q2 \in qs, i2 \in is :
               VerdictCore(combined_prediction(q2, i2)) = VerdictCore(verdict)

\* C23: every fused verdict has prediction 1 exactly when its risk level is
\* MODERATE or HIGH, the label ELEVATED_RISK exactly when its prediction is
\* 1 and LOW_RISK otherwise, embeds the two source results as they were
\* given, which fusing leaves unchanged, and is the same for any sources of
\* the same two confidences.
C23_VerdictConsistent ==
    /\ [](VerdictConsistent /\ VerdictFromConfidencesOnly)
    /\ [][ /\ questionnaire_result' = questionnaire_result
           /\ image_result' = image_result ]_vars

\* C23 witness: a questionnaire result of risk HIGH and prediction 1 fused to
\* a verdict LOW / LOW_RISK that embeds it.
C23_Witness ==
    /\ verdict # NoneVal
    /\ "risk_level" \in DOMAIN questionnaire_result
    /\ questionnaire_result.risk_level = "HIGH"
    /\ questionnaire_result.prediction = 1
    /\ verdict.risk_level = "LOW"
    /\ verdict.prediction_label = "LOW_RISK"
    /\ verdict.questionnaire_details.risk_level = "HIGH"

(***************************************************************************)
(* Claims about maps of any shape (SpecRegions).                           *)
(***************************************************************************)
\* Every value of the map lies in [0,1].
Normalized(map) ==
    /\ map.den > 0
    /\ \A c \in DOMAIN map.num : map.num[c] >= 0 /\ map.num[c] <= map.den

\* The score is a number in [0,1]; the mean of an empty window is none.
InUnitRange(score) ==
    /\ score.den > 0
    /\ score.num >= 0
    /\ score.num <= score.den

====
